---- MODULE Spec2Model ----
(***************************************************************************)
(* Receipt extraction service: upload -> validate -> process -> get/delete *)
(* Model of ReceiptController, FileService, ReceiptExtractionService and   *)
(* OCRService.  Node runs one handler at a time and switches handlers only *)
(* at an await, so every action below is the code between two awaits.      *)
(* What fails in the model: the route validation, multer's checks, the     *)
(* rename of an upload, the read of validatePdf, the OCR of a page and the *)
(* race against the timer.  The database, the language model and           *)
(* worker.terminate() answer.                                              *)
(* Spec is the whole service.  SpecPdf is validatePdf alone, SpecList is   *)
(* GET /receipts alone over a table of receipts, SpecErr is errorHandler   *)
(* alone, and SpecProc is the process route alone on a validated file,     *)
(* with room for a second Receipt row, a database that may fail in         *)
(* saveReceiptData and in the status update of the catch block, and a      *)
(* worker.terminate() that may reject.  SpecAi is                          *)
(* GeminiService.validateAndTransformData alone on the answers the         *)
(* language model may give, and SpecText is OCRService.normalizeText       *)
(* followed by the regex-based extractReceiptData on the texts of a few    *)
(* lines.                                                                  *)
(***************************************************************************)
EXTENDS Integers, Sequences, FiniteSets, TLC

(* ---------------- bounds of the model ---------------- *)
MaxFiles == 1
NumReq == 2
MaxReceipts == 1
MaxReasonLen == 2
MaxHeaderLen == 5
MaxStored == 3
MaxProcReceipts == 2
MaxLines == 3

(* ---------------- program constants ---------------- *)
MAX_FILE_SIZE == 10 * 1024 * 1024
PROCESS_TIMEOUT == 180000

VARIABLES
  files,        \* receipt_file table: sequence of rows, row i has id i
  disk,         \* uploads/ directory: path -> file on disk
  receipts,     \* receipts table: set of rows
  nextReceipt,  \* number of receipt rows inserted so far
  worker,       \* OCRService.worker (0 is null)
  alive,        \* Tesseract workers created and not terminated
  nextWorker,   \* number of workers created so far
  initialized,  \* ReceiptExtractionService.initialized
  pc,           \* processReceipt: position of each request
  snap,         \* processReceipt: fileId (as id) and receiptFile (the columns read later)
  upd,          \* updateFileProcessing: receiptFile read by findOne
  err,          \* processReceipt: error caught
  ext,          \* extractReceiptData: position of the extraction promise
  extVal,       \* extractReceiptData: error the promise rejected with
  extData,      \* extractReceiptData: data the promise resolved with
  using,        \* extractTextFromPdf: worker whose recognize() is pending
  rcpt,         \* processReceipt: receipt returned by saveReceiptData
  out,          \* the response written by the last step, until it is sent
  pdfIn,        \* validatePdf on its own: the file it is given
  pdfOut,       \* validatePdf on its own: what it returned
  listStore,    \* GET /receipts on its own: the receipts table, in insertion order
  listSort,     \* GET /receipts on its own: the sortBy and sortOrder the client sends
  listOut,      \* GET /receipts on its own: the last request and its answer
  walk,         \* GET /receipts on its own: the pages 1, 2, ... fetched in a row
  aiIn,         \* validateAndTransformData on its own: the parsed answer of the language model
  aiOut,        \* validateAndTransformData on its own: what it returned or threw
  ocrIn,        \* text extraction on its own: the text read from the PDF
  ocrOut,       \* text extraction on its own: what normalizeText made of it
  parsed        \* text extraction on its own: what extractReceiptData returned or threw

vars == <<files, disk, receipts, nextReceipt, worker, alive, nextWorker, initialized,
          pc, snap, upd, err, ext, extVal, extData, using, rcpt, out, pdfIn, pdfOut,
          listStore, listSort, listOut, walk, aiIn, aiOut, ocrIn, ocrOut, parsed>>

dbVars == <<files, disk, receipts, nextReceipt>>
ocrVars == <<worker, alive, nextWorker, initialized>>
procVars == <<pc, snap, upd, err, ext, extVal, extData, using, rcpt>>
pdfVars == <<pdfIn, pdfOut>>
listVars == <<listStore, listSort, listOut, walk>>
fnVars == <<aiIn, aiOut, ocrIn, ocrOut, parsed>>

Reqs == 1..NumReq

(* ---------------- strings ---------------- *)
(* A message is the sequence of the pieces it was concatenated from;      *)
(* <<>> stands for undefined, null and ''.                                 *)
Undefined == <<>>
Msg(s) == <<s>>

(* ---------------- errors (types/errors.ts) ---------------- *)
VALIDATION == "VALIDATION_ERROR"
NOT_FOUND == "NOT_FOUND_ERROR"
FILE == "FILE_ERROR"
DATABASE == "DATABASE_ERROR"
PROCESSING == "PROCESSING_ERROR"

AppError(message, statusCode, type) ==
  [isAppError |-> TRUE, name |-> "Error", code |-> "", message |-> message,
   statusCode |-> statusCode, type |-> type]
validationError(message) == AppError(message, 400, VALIDATION)
\* notFoundError that makes a validation error instead
notFoundErrorAsValidation(message) == AppError(message, 400, VALIDATION)
notFoundError(message) == AppError(message, 404, NOT_FOUND)
fileError(message) == AppError(message, 400, FILE)
databaseError(message) == AppError(message, 500, DATABASE)
processingError(message) == AppError(message, 500, PROCESSING)
\* an error that is no AppError: new Error(message), multer's MulterError with
\* its code, TypeORM's QueryFailedError
LibraryError(name, code, message) ==
  [isAppError |-> FALSE, name |-> name, code |-> code, message |-> message,
   statusCode |-> 0, type |-> ""]
PlainError(message) == LibraryError("Error", "", message)
NoError == [isAppError |-> FALSE, name |-> "", code |-> "", message |-> Undefined,
            statusCode |-> 0, type |-> "none"]

(* ---------------- files on disk ---------------- *)
(* The first bytes of a file are a sequence of tokens: "SIG" is the five   *)
(* bytes %PDF-, "d" a decimal digit, "." a dot, "x" any other byte.        *)
Tokens == {"SIG", "d", ".", "x"}
TokenBytes(t) == IF t = "SIG" THEN 5 ELSE 1

RECURSIVE Bytes(_)
Bytes(h) == IF h = <<>> THEN 0 ELSE TokenBytes(Head(h)) + Bytes(Tail(h))

Absent == [exists |-> FALSE, size |-> 0, header |-> <<>>]


\* Files a client can upload: a PDF, a file that is not a PDF, and a PDF
\* above the upload limit.
GoodPdf == [exists |-> TRUE, size |-> 8, header |-> <<"SIG", "d", ".", "d">>]
NotPdf == [exists |-> TRUE, size |-> 8, header |-> <<"x", "x">>]
UPLOAD_LIMIT == 5 * 1024 * 1024
BigPdf == [exists |-> TRUE, size |-> UPLOAD_LIMIT + 1, header |-> <<"SIG", "d", ".", "d">>]
SampleFiles == {GoodPdf, NotPdf, BigPdf}

(* ---------------- FileService.validatePdf ---------------- *)
HEADER_BYTES == 1024

\* buffer.toString(): the tokens that lie within the first n bytes
RECURSIVE ReadHeader(_, _)
ReadHeader(h, n) ==
  IF h = <<>> \/ TokenBytes(Head(h)) > n THEN <<>>
  ELSE <<Head(h)>> \o ReadHeader(Tail(h), n - TokenBytes(Head(h)))

\* first index >= i of h that is not a digit
RECURSIVE SkipDigits(_, _)
SkipDigits(h, i) ==
  IF i > Len(h) \/ h[i] # "d" THEN i ELSE SkipDigits(h, i + 1)

\* /%PDF-(\d+\.\d+)/ matched at position i
MatchVersionAt(h, i) ==
  /\ h[i] = "SIG"
  /\ LET j == SkipDigits(h, i + 1) IN
       /\ j > i + 1
       /\ j < Len(h)
       /\ h[j] = "."
       /\ h[j + 1] = "d"

\* buffer.toString().match(/%PDF-(\d+\.\d+)/): the regex is searched, not anchored
versionMatch(h) == \E i \in 1..Len(h) : MatchVersionAt(h, i)

\* buffer.toString().startsWith('%PDF-')
isPdf(h) == Len(h) > 0 /\ h[1] = "SIG"

IoFaults == {"none", "stat", "open", "read"}
Return(isValid, reason) == [threw |-> FALSE, isValid |-> isValid, reason |-> reason]
Throw(message) == [threw |-> TRUE, isValid |-> FALSE, reason |-> message]

\* the try block of validatePdf; io names the fs call that fails, if any
validatePdfTry(f, io) ==
  IF ~f.exists THEN Return(FALSE, Msg("File not found"))
  ELSE IF io = "stat" THEN Throw(Msg("ENOENT"))
  ELSE IF f.size = 0 THEN Return(FALSE, Msg("File is empty"))
  ELSE IF f.size > MAX_FILE_SIZE THEN Return(FALSE, Msg("File size exceeds 10MB limit"))
  ELSE IF io = "open" THEN Throw(Msg("EMFILE"))
  ELSE IF io = "read" THEN Throw(Msg("EIO"))
  ELSE LET buffer == ReadHeader(f.header, HEADER_BYTES) IN
    IF ~isPdf(buffer) THEN Return(FALSE, Msg("Invalid PDF format: Missing PDF signature"))
    ELSE IF ~versionMatch(buffer) THEN Return(FALSE, Msg("Invalid PDF format: Missing version number"))
    ELSE Return(TRUE, Undefined)

\* validatePdf without its catch block
validatePdfUncaught(f, io) == validatePdfTry(f, io)

\* validatePdf: the try block, and the catch that turns an error into a result
validatePdf(f, io) ==
  LET r == validatePdfTry(f, io) IN
    IF r.threw THEN Return(FALSE, Msg("Failed to validate PDF: ") \o r.reason) ELSE r

(* ---------------- path parameters ---------------- *)
Digits == <<"0", "1", "2", "3", "4", "5", "6", "7", "8", "9">>
DigitChars == {Digits[i] : i \in 1..10}
DigitVal(c) == (CHOOSE i \in 1..10 : Digits[i] = c) - 1
\* decimal text of a small number
IntStr(n) == <<Digits[n + 1]>>

RECURSIVE parseDigits(_, _)
parseDigits(s, acc) ==
  IF s = <<>> THEN acc ELSE parseDigits(Tail(s), 10 * acc + DigitVal(Head(s)))

\* validator.js isInt: /^(?:[-+]?(?:0|[1-9][0-9]*))$/
IsIntText(s) ==
  LET body == IF Len(s) > 0 /\ s[1] \in {"-", "+"} THEN Tail(s) ELSE s IN
    /\ Len(body) > 0
    /\ \A i \in 1..Len(body) : body[i] \in DigitChars
    /\ (body[1] = "0" => Len(body) = 1)

\* parseInt of a text accepted by isInt
parseInt(s) ==
  IF s[1] = "-" THEN 0 - parseDigits(Tail(s), 0)
  ELSE IF s[1] = "+" THEN parseDigits(Tail(s), 0)
  ELSE parseDigits(s, 0)

\* param(name).isInt({ min: 1 })
isIntMin1(s) == IsIntText(s) /\ parseInt(s) >= 1

\* PrimaryGeneratedColumn('uuid'): hexadecimal groups joined by hyphens
Uuid(n) == <<Digits[n + 1], "a", "-", "4", "b">>

FileIdParams == {IntStr(n) : n \in 0..(MaxFiles + 1)}

(* ---------------- responses ---------------- *)
NoData == <<>>
Response(status, type, message, data) ==
  [status |-> status, type |-> type, message |-> message, data |-> data]
\* the request is left without a response
NoResp == Response(0, "", Undefined, NoData)
Success(status, message, data) == Response(status, "", message, data)

\* the error handler of config/app.ts: every error is answered 500, untyped
errorHandlerInline(e, dev) == Response(500, "", Msg("Something went wrong!"), NoData)

\* errorHandler; dev is NODE_ENV === 'development'
errorHandler(e, dev) ==
  IF e.name = "MulterError"
  THEN Response(400, VALIDATION,
                IF e.code = "LIMIT_FILE_SIZE"
                THEN Msg("File size too large. Maximum size is 5MB")
                ELSE Msg("Upload error: ") \o e.message, NoData)
  ELSE IF e.isAppError
  THEN Response(e.statusCode, e.type, e.message, NoData)
  ELSE IF e.name = "QueryFailedError"
  THEN Response(500, DATABASE, Msg("Database operation failed"), NoData)
  ELSE Response(500, PROCESSING,
                IF dev THEN e.message ELSE Msg("Internal server error"), NoData)

\* validate(validations) throws inside an async middleware.  Express 5 hands
\* the rejection to errorHandler; Express 4 leaves the request unanswered.
validateFailed(answered) ==
  IF answered THEN errorHandler(validationError(Msg("Validation failed")), FALSE) ELSE NoResp

\* the request that ended in the last step and what it was answered
Answer(op, param, r) == [op |-> op, param |-> param, resp |-> r]
Nothing == Answer("none", <<>>, NoResp)

(* ---------------- rows ---------------- *)
\* FileService.saveFileMetadata
saveFileMetadata(id, filePath) ==
  [id |-> id, file_path |-> filePath, is_valid |-> FALSE, is_processed |-> FALSE,
   invalid_reason |-> Undefined]

\* a nullable value is <<v>>, null is <<>>
Null == <<>>
Val(v) == <<v>>

\* receiptFile of processReceipt: the columns the handler reads after the
\* validity check (id and file_path; is_valid is kept for the history of the
\* receipt rows)
NoFile == [id |-> 0, file_path |-> 0, is_valid |-> FALSE]
ReceiptFileOf(row) == [id |-> row.id, file_path |-> row.file_path, is_valid |-> row.is_valid]

\* receiptFile of updateFileProcessing: the column that save writes back as
\* it was read (is_processed and invalid_reason are assigned before save, id
\* and file_path never change)
NotRead == [found |-> FALSE, is_valid |-> FALSE]
ReadRow(row) == [found |-> TRUE, is_valid |-> row.is_valid]

NoExtracted == [merchantName |-> Null, date |-> Null, totalAmount |-> Null]
NoReceipt == [id |-> <<>>, merchant_name |-> Undefined, purchased_at |-> Undefined,
              total_amount |-> 0, file_path |-> 0, created_at |-> 0,
              fromValid |-> FALSE, fromExtraction |-> "idle"]

\* GET /receipts on its own: no sort parameter, no request yet, no page fetched
NoSort == [sortBy |-> Undefined, sortOrder |-> Undefined]
NotListed == [called |-> FALSE, page |-> Undefined, limit |-> Undefined, queried |-> FALSE,
              skip |-> 0, take |-> 0, resp |-> NoResp]
NoWalk == [limit |-> 0, pages |-> <<>>]
NoInput == [file |-> Absent, io |-> "none"]

(* ---------------- JSON values ---------------- *)
\* A value of JSON.parse: t is its kind, s the text of a string ('' is <<>>),
\* n the value of a number.
JUndefined == [t |-> "undefined", s |-> <<>>, n |-> 0]
JNull == [t |-> "null", s |-> <<>>, n |-> 0]
JString(s) == [t |-> "string", s |-> s, n |-> 0]
JNumber(n) == [t |-> "number", s |-> <<>>, n |-> n]
\* typeof v
typeOf(v) == IF v.t \in {"null", "array"} THEN "object" ELSE v.t
\* !v
falsy(v) ==
  \/ v.t \in {"undefined", "null"}
  \/ v.t = "string" /\ v.s = <<>>
  \/ v.t = "number" /\ v.n = 0

\* an entry of items, and items itself
JItem(t, name, quantity, price, total) ==
  [t |-> t, name |-> name, quantity |-> quantity, price |-> price, total |-> total]
JList(t, list) == [t |-> t, list |-> list]
\* the parsed answer: t is the kind of the value, the rest its properties
JData(t, merchantName, date, totalAmount, taxAmount, items, paymentMethod, receiptNumber) ==
  [t |-> t, merchantName |-> merchantName, date |-> date, totalAmount |-> totalAmount,
   taxAmount |-> taxAmount, items |-> items, paymentMethod |-> paymentMethod,
   receiptNumber |-> receiptNumber]
\* a value without properties: null, a string, a number, an empty array
JBare(t) == JData(t, JUndefined, JUndefined, JUndefined, JUndefined,
                  JList("undefined", <<>>), JUndefined, JUndefined)

\* validateAndTransformData and the text extraction on their own: nothing
\* given, nothing returned
NoAnswer == JBare("undefined")
NotShaped == [called |-> FALSE, threw |-> FALSE, error |-> NoError, data |-> JBare("undefined")]
NotNormalized == [called |-> FALSE, text |-> <<>>]
NotParsed == [called |-> FALSE, threw |-> FALSE, error |-> NoError,
              data |-> [merchantName |-> <<>>,
                        purchaseDate |-> [now |-> TRUE, year |-> 0, month |-> 0, day |-> 0],
                        totalAmount |-> 0, items |-> <<>>]]
NotCalled == [threw |-> FALSE, isValid |-> FALSE, reason |-> Msg("not called")]

(* ---------------- state after construction ---------------- *)
Init ==
  /\ files = <<>>
  /\ disk = [p \in 1..MaxFiles |-> Absent]
  /\ receipts = {}
  /\ nextReceipt = 0
  /\ worker = 0
  /\ alive = {}
  /\ nextWorker = 0
  /\ initialized = FALSE
  /\ pc = [r \in Reqs |-> "idle"]
  /\ snap = [r \in Reqs |-> NoFile]
  /\ upd = [r \in Reqs |-> NotRead]
  /\ err = [r \in Reqs |-> NoError]
  /\ ext = [r \in Reqs |-> "idle"]
  /\ extVal = [r \in Reqs |-> NoError]
  /\ extData = [r \in Reqs |-> NoExtracted]
  /\ using = [r \in Reqs |-> 0]
  /\ rcpt = [r \in Reqs |-> NoReceipt]
  /\ out = Nothing
  /\ pdfIn = NoInput
  /\ pdfOut = NotCalled
  /\ listStore = <<>>
  /\ listSort = NoSort
  /\ listOut = NotListed
  /\ walk = NoWalk
  /\ aiIn = NoAnswer
  /\ aiOut = NotShaped
  /\ ocrIn = <<>>
  /\ ocrOut = NotNormalized
  /\ parsed = NotParsed

\* the response of the last step leaves the server
Sent ==
  /\ out # Nothing
  /\ out' = Nothing
  /\ UNCHANGED <<dbVars, ocrVars, procVars, pdfVars, listVars, fnVars>>

(* ---------------- POST /upload ---------------- *)
Uploads == [field : {"receipt", "other", "none"},
            mimetype : {"application/pdf", "text/plain"},
            content : SampleFiles]

\* the upload as the answer records it: field name, mimetype and size
UploadParam(u) == <<u.field, u.mimetype, u.content.size>>

\* uploadMiddleware with a fileFilter that accepts every mimetype
uploadMiddlewareAnyType(u) ==
  IF u.field = "none" THEN NoError
  ELSE IF u.field = "other" THEN validationError(Msg("Unexpected field"))
  ELSE IF u.content.size > UPLOAD_LIMIT
       THEN validationError(Msg("File size too large. Maximum size is 5MB"))
  ELSE NoError

\* uploadMiddleware: multer's fileFilter and limits, errors turned into AppError
uploadMiddleware(u) ==
  IF u.field = "none" THEN NoError
  ELSE IF u.field = "other" THEN validationError(Msg("Unexpected field"))
  ELSE IF u.mimetype # "application/pdf" THEN validationError(Msg("Only PDF files are allowed"))
  ELSE IF u.content.size > UPLOAD_LIMIT
       THEN validationError(Msg("File size too large. Maximum size is 5MB"))
  ELSE NoError

\* uploadMiddleware, then ReceiptController.uploadFile with FileService.saveFile
\* and saveFileMetadata; renameOk is the outcome of fs.promises.rename
UploadFile(u, renameOk) ==
  /\ out = Nothing
  /\ Len(files) < MaxFiles
  /\ LET mw == uploadMiddleware(u)
         id == Len(files) + 1 IN
       IF mw # NoError THEN
         /\ out' = Answer("upload", UploadParam(u), errorHandler(mw, FALSE))
         /\ UNCHANGED <<files, disk>>
       ELSE IF u.field = "none" THEN
         /\ out' = Answer("upload", UploadParam(u),
                          errorHandler(validationError(Msg("No file uploaded")), FALSE))
         /\ UNCHANGED <<files, disk>>
       ELSE IF ~renameOk THEN
         /\ out' = Answer("upload", UploadParam(u), errorHandler(fileError(Msg("Failed to save file")), FALSE))
         /\ UNCHANGED <<files, disk>>
       ELSE
         /\ disk' = [disk EXCEPT ![id] = u.content]
         /\ files' = Append(files, saveFileMetadata(id, id))
         /\ out' = Answer("upload", UploadParam(u),
                          Success(201, Msg("File uploaded successfully"),
                                  <<saveFileMetadata(id, id)>>))
  /\ UNCHANGED <<receipts, nextReceipt, ocrVars, procVars, pdfVars, listVars, fnVars>>

(* ---------------- POST /validate/:fileId ---------------- *)
\* FileService.updateFileValidation: repository.update sets the given columns
\* and skips a column whose value is undefined
\* updateFileValidation that leaves invalid_reason out of the update
updateFileValidationNoReason(row, isValid, reason) == [row EXCEPT !.is_valid = isValid]

updateFileValidation(row, isValid, reason) ==
  [row EXCEPT !.is_valid = isValid,
              !.invalid_reason = IF reason = Undefined THEN @ ELSE reason]

\* the io faults validatePdf meets while the service runs
ValidateIo == {"none", "read"}

\* route validation, then ReceiptController.validateReceipt.  The file on
\* disk does not change between the read of validatePdf and the update, so
\* the handler is taken in one step, at its update.
ValidateReceipt(p, io, answered) ==
  /\ out = Nothing
  /\ IF ~isIntMin1(p) THEN
       /\ out' = Answer("validate", p, validateFailed(answered))
       /\ files' = files
     ELSE IF parseInt(p) > Len(files) THEN
       /\ out' = Answer("validate", p, errorHandler(notFoundError(Msg("File not found")), FALSE))
       /\ files' = files
     ELSE LET fileId == parseInt(p)
              validationResult == validatePdf(disk[files[fileId].file_path], io) IN
       /\ files' = [files EXCEPT ![fileId] =
            updateFileValidation(@, validationResult.isValid, validationResult.reason)]
       /\ out' = Answer("validate", p, Success(200,
            IF validationResult.isValid THEN Msg("File validated successfully")
            ELSE Msg("File validation failed"),
            <<[id |-> fileId, is_valid |-> validationResult.isValid, is_processed |-> FALSE,
               invalid_reason |-> validationResult.reason]>>))
  /\ UNCHANGED <<disk, receipts, nextReceipt, ocrVars, procVars, pdfVars, listVars, fnVars>>

(* ---------------- POST /process/:fileId ---------------- *)
\* what GeminiService.extractReceiptData can resolve with
ExtractedSamples ==
  { [merchantName |-> Null, date |-> Msg("2024-01-31"), totalAmount |-> Val(12)] }

\* FileService.updateFileProcessing, the row it saves: the row as findOne
\* read it (read) with is_processed and, for a non-empty message,
\* invalid_reason replaced; row is the row in the table at the time of save
updateFileProcessing(row, read, isProcessed, statusMessage) ==
  [row EXCEPT !.is_valid = read.is_valid,
              !.is_processed = isProcessed,
              !.invalid_reason = IF statusMessage = Undefined THEN @ ELSE statusMessage]

\* saveReceiptData that stores a path no upload was saved under
saveReceiptDataOtherPath(n, filePath, data, fromValid, fromExtraction) ==
  [id |-> Uuid(n),
   merchant_name |-> IF data.merchantName = Null THEN Msg("Unknown Merchant") ELSE data.merchantName,
   purchased_at |-> IF data.date = Null THEN Msg("now") ELSE data.date,
   total_amount |-> IF data.totalAmount = Null THEN 0 ELSE data.totalAmount[1],
   file_path |-> 0, created_at |-> n,
   fromValid |-> fromValid, fromExtraction |-> fromExtraction]

\* ReceiptExtractionService.saveReceiptData, the row it saves.  fromValid and
\* fromExtraction are history: receiptFile.is_valid and the state of the
\* extraction promise of the request that saved the row.
saveReceiptData(n, filePath, data, fromValid, fromExtraction) ==
  [id |-> Uuid(n),
   merchant_name |-> IF data.merchantName = Null THEN Msg("Unknown Merchant") ELSE data.merchantName,
   purchased_at |-> IF data.date = Null THEN Msg("now") ELSE data.date,
   total_amount |-> IF data.totalAmount = Null THEN 0 ELSE data.totalAmount[1],
   file_path |-> filePath, created_at |-> n,
   fromValid |-> fromValid, fromExtraction |-> fromExtraction]

\* the receipt as the controller answers it
ReceiptView(row) ==
  [id |-> row.id, merchant_name |-> row.merchant_name, purchased_at |-> row.purchased_at,
   total_amount |-> row.total_amount, file_path |-> row.file_path, created_at |-> row.created_at]

\* processReceipt without the is_valid check
mayProcessAny(row) == TRUE

\* processReceipt: if (!receiptFile.is_valid) throw
mayProcess(row) == row.is_valid

\* errorMessage without the 'Processing failed: ' prefix
errorMessageRaw(e) == e.message

\* processReceipt catch: errorMessage
errorMessage(e) ==
  IF e.isAppError THEN e.message ELSE Msg("Processing failed: ") \o e.message

Settled == {"idle", "resolved", "rejected"}

\* a request slot with no handler and no extraction promise left in it; a new
\* request takes the first free slot
Free(r) == pc[r] = "idle" /\ ext[r] = "idle"

\* route validation, then processReceipt up to the await of getFileById
ProcessStart(r, p, answered) ==
  /\ out = Nothing
  /\ Free(r)
  /\ \A q \in 1..(r - 1) : ~Free(q)
  /\ IF ~isIntMin1(p) THEN
       /\ out' = Answer("process", p, validateFailed(answered))
       /\ UNCHANGED <<pc, snap, err>>
     ELSE
       /\ out' = Nothing
       /\ IF parseInt(p) > Len(files) THEN
            /\ snap' = [snap EXCEPT ![r] = [NoFile EXCEPT !.id = parseInt(p)]]
            /\ err' = [err EXCEPT ![r] = notFoundError(Msg("File not found"))]
            /\ pc' = [pc EXCEPT ![r] = "cleanup"]
          ELSE LET receiptFile == files[parseInt(p)] IN
            /\ snap' = [snap EXCEPT ![r] = ReceiptFileOf(receiptFile)]
            /\ IF ~mayProcess(receiptFile) THEN
                 /\ Len(receiptFile.invalid_reason) < MaxReasonLen
                 /\ err' = [err EXCEPT ![r] = validationError(
                      Msg("Cannot process invalid receipt: ") \o
                      (IF receiptFile.invalid_reason = Undefined
                       THEN Msg("File not validated") ELSE receiptFile.invalid_reason))]
                 /\ pc' = [pc EXCEPT ![r] = "catchFind"]
               ELSE
                 /\ err' = err
                 /\ pc' = [pc EXCEPT ![r] = "progFind"]
  /\ UNCHANGED <<dbVars, ocrVars, upd, ext, extVal, extData, using, rcpt, pdfVars, listVars, fnVars>>

\* updateFileProcessing(fileId, false, 'Processing in progress'): findOne
ProgFind(r) ==
  /\ out = Nothing
  /\ pc[r] = "progFind"
  /\ upd' = [upd EXCEPT ![r] = ReadRow(files[snap[r].id])]
  /\ pc' = [pc EXCEPT ![r] = "progSave"]
  /\ UNCHANGED <<dbVars, ocrVars, snap, err, ext, extVal, extData, using, rcpt, out, pdfVars, listVars, fnVars>>

\* updateFileProcessing(fileId, false, 'Processing in progress'): save; then
\* extractReceiptData is called and runs up to its first await
ProgSave(r) ==
  /\ out = Nothing
  /\ pc[r] = "progSave"
  /\ upd' = [upd EXCEPT ![r] = NotRead]
  /\ files' = [files EXCEPT ![snap[r].id] =
       updateFileProcessing(@, upd[r], FALSE, Msg("Processing in progress"))]
  /\ ext' = [ext EXCEPT ![r] = IF initialized THEN "convert" ELSE "createWorker"]
  /\ pc' = [pc EXCEPT ![r] = "race"]
  /\ UNCHANGED <<disk, receipts, nextReceipt, ocrVars, snap, err, extVal, extData, using, rcpt,
                 out, pdfVars, listVars, fnVars>>

(* ---------------- the extraction promise ---------------- *)
NoText == processingError(Msg("No text could be extracted from the PDF"))

\* The promise of request r settles.  While processReceipt awaits the race or
\* is in its catch block the outcome stays with the request; once the handler
\* has returned nobody reads it and the slot is free again.
Settle(r, how, e, data) ==
  IF pc[r] = "idle"
  THEN /\ ext' = [ext EXCEPT ![r] = "idle"]
       /\ snap' = [snap EXCEPT ![r] = NoFile]
       /\ UNCHANGED <<extVal, extData>>
  ELSE /\ ext' = [ext EXCEPT ![r] = how]
       /\ extVal' = [extVal EXCEPT ![r] = e]
       /\ extData' = [extData EXCEPT ![r] = data]
       /\ snap' = snap

\* OCRService.initialize: this.worker = await createWorker('eng'); the value
\* of this.worker after it, n workers having been created before
initialize(w, n) == n + 1

\* ensureInitialized: createWorker and setParameters have settled.  Every
\* caller that found initialized false is here with a createWorker of its own.
ExtCreateWorker(r) ==
  /\ out = Nothing
  /\ ext[r] = "createWorker"
  /\ worker' = initialize(worker, nextWorker)
  /\ nextWorker' = IF worker' = nextWorker + 1 THEN nextWorker + 1 ELSE nextWorker
  /\ alive' = alive \cup {worker'}
  /\ initialized' = TRUE
  /\ ext' = [ext EXCEPT ![r] = "convert"]
  /\ UNCHANGED <<dbVars, pc, snap, upd, err, extVal, extData, using, rcpt, out, pdfVars, listVars, fnVars>>

\* extractTextFromPdf: convertPdfToImages settles (pdftoppm -singlefile: one
\* image), then the worker is looked up and recognize is called
ExtConvert(r) ==
  /\ out = Nothing
  /\ ext[r] = "convert"
  /\ LET f == disk[snap[r].file_path] IN
       IF ~f.exists THEN
         /\ Settle(r, "rejected", fileError(Msg("PDF file not found")), NoExtracted)
         /\ using' = using
       ELSE IF f.size = 0 THEN
         /\ Settle(r, "rejected", fileError(Msg("PDF file is empty")), NoExtracted)
         /\ using' = using
       ELSE IF worker = 0 THEN
         \* 'OCR worker not initialized' is caught per image, no text is left
         /\ Settle(r, "rejected", NoText, NoExtracted)
         /\ using' = using
       ELSE
         /\ ext' = [ext EXCEPT ![r] = "recognize"]
         /\ using' = [using EXCEPT ![r] = worker]
         /\ UNCHANGED <<extVal, extData, snap>>
  /\ UNCHANGED <<dbVars, ocrVars, pc, upd, err, rcpt, out, pdfVars, listVars, fnVars>>

\* extractTextFromPdf: worker.recognize settles; hasText is whether the page
\* gave any text.  A terminated worker gives none: the rejection or the OCR
\* timeout is caught per image.  With text, geminiService.extractReceiptData
\* is called.
ExtRecognize(r, hasText) ==
  /\ out = Nothing
  /\ ext[r] = "recognize"
  /\ using' = [using EXCEPT ![r] = 0]
  /\ IF using[r] \in alive /\ hasText THEN
       /\ ext' = [ext EXCEPT ![r] = "gemini"]
       /\ UNCHANGED <<extVal, extData, snap>>
     ELSE
       Settle(r, "rejected", NoText, NoExtracted)
  /\ UNCHANGED <<dbVars, ocrVars, pc, upd, err, rcpt, out, pdfVars, listVars, fnVars>>

\* geminiService.extractReceiptData settles
ExtGemini(r, data) ==
  /\ out = Nothing
  /\ ext[r] = "gemini"
  /\ Settle(r, "resolved", NoError, data)
  /\ UNCHANGED <<dbVars, ocrVars, pc, upd, err, using, rcpt, out, pdfVars, listVars, fnVars>>

(* ---------------- processReceipt after the race ---------------- *)
\* Promise.race: the extraction promise settled first
RaceSettle(r) ==
  /\ out = Nothing
  /\ pc[r] = "race"
  /\ ext[r] \in {"resolved", "rejected"}
  /\ IF ext[r] = "resolved" THEN
       /\ pc' = [pc EXCEPT ![r] = "saveReceipt"]
       /\ err' = err
     ELSE
       /\ pc' = [pc EXCEPT ![r] = "catchFind"]
       /\ err' = [err EXCEPT ![r] = extVal[r]]
  /\ UNCHANGED <<dbVars, ocrVars, snap, upd, ext, extVal, extData, using, rcpt, out, pdfVars, listVars, fnVars>>

\* Promise.race: the PROCESS_TIMEOUT timer fired first; the extraction
\* promise is abandoned, not cancelled
Timeout(r) ==
  /\ out = Nothing
  /\ pc[r] = "race"
  /\ ext[r] \notin Settled
  /\ pc' = [pc EXCEPT ![r] = "catchFind"]
  /\ err' = [err EXCEPT ![r] = PlainError(Msg("Data extraction timeout"))]
  /\ UNCHANGED <<dbVars, ocrVars, snap, upd, ext, extVal, extData, using, rcpt, out, pdfVars, listVars, fnVars>>

\* extractionService.saveReceiptData(receiptFile.file_path, extractedData),
\* the table holding fewer than cap rows
SaveReceiptUpTo(r, cap) ==
  /\ out = Nothing
  /\ pc[r] = "saveReceipt"
  /\ nextReceipt < cap
  /\ LET row == saveReceiptData(nextReceipt + 1, snap[r].file_path,
                                extData[r], snap[r].is_valid, ext[r]) IN
       /\ receipts' = receipts \cup {row}
       /\ rcpt' = [rcpt EXCEPT ![r] = row]
  /\ nextReceipt' = nextReceipt + 1
  /\ pc' = [pc EXCEPT ![r] = "doneFind"]
  /\ UNCHANGED <<files, disk, ocrVars, snap, upd, err, ext, extVal, extData, using, out, pdfVars, listVars, fnVars>>

SaveReceipt(r) == SaveReceiptUpTo(r, MaxReceipts)

\* the handler of request r returns: its locals are gone; an extraction
\* promise that has not settled stays behind
Return_(r) ==
  /\ pc' = [pc EXCEPT ![r] = "idle"]
  /\ upd' = [upd EXCEPT ![r] = NotRead]
  /\ err' = [err EXCEPT ![r] = NoError]
  /\ rcpt' = [rcpt EXCEPT ![r] = NoReceipt]
  /\ IF ext[r] \in Settled
     THEN /\ ext' = [ext EXCEPT ![r] = "idle"]
          /\ extVal' = [extVal EXCEPT ![r] = NoError]
          /\ extData' = [extData EXCEPT ![r] = NoExtracted]
          /\ snap' = [snap EXCEPT ![r] = NoFile]
     ELSE UNCHANGED <<ext, extVal, extData, snap>>

\* updateFileProcessing(fileId, true, 'Processing completed successfully'): findOne
DoneFind(r) ==
  /\ out = Nothing
  /\ pc[r] = "doneFind"
  /\ upd' = [upd EXCEPT ![r] = ReadRow(files[snap[r].id])]
  /\ pc' = [pc EXCEPT ![r] = "doneSave"]
  /\ UNCHANGED <<dbVars, ocrVars, snap, err, ext, extVal, extData, using, rcpt, out, pdfVars, listVars, fnVars>>

\* updateFileProcessing(fileId, true, ...): save, then the success response
DoneSave(r) ==
  /\ out = Nothing
  /\ pc[r] = "doneSave"
  /\ files' = [files EXCEPT ![snap[r].id] =
       updateFileProcessing(@, upd[r], TRUE, Msg("Processing completed successfully"))]
  /\ out' = Answer("process", IntStr(snap[r].id),
       Success(200, Msg("Receipt processed successfully"), <<ReceiptView(rcpt[r])>>))
  /\ Return_(r)
  /\ UNCHANGED <<disk, receipts, nextReceipt, ocrVars, using, pdfVars, listVars, fnVars>>

\* catch: updateFileProcessing(receiptFile.id, false, errorMessage): findOne
CatchFind(r) ==
  /\ out = Nothing
  /\ pc[r] = "catchFind"
  /\ upd' = [upd EXCEPT ![r] = ReadRow(files[snap[r].id])]
  /\ pc' = [pc EXCEPT ![r] = "catchSave"]
  /\ UNCHANGED <<dbVars, ocrVars, snap, err, ext, extVal, extData, using, rcpt, out, pdfVars, listVars, fnVars>>

\* catch: updateFileProcessing(receiptFile.id, false, errorMessage): save
CatchSave(r) ==
  /\ out = Nothing
  /\ pc[r] = "catchSave"
  /\ upd' = [upd EXCEPT ![r] = NotRead]
  /\ files' = [files EXCEPT ![snap[r].id] =
       updateFileProcessing(@, upd[r], FALSE, errorMessage(err[r]))]
  /\ pc' = [pc EXCEPT ![r] = "cleanup"]
  /\ UNCHANGED <<disk, receipts, nextReceipt, ocrVars, snap, err, ext, extVal, extData,
                 using, rcpt, out, pdfVars, listVars, fnVars>>

\* catch: next(error) reaches errorHandler and the handler returns
Fail(r, dev) ==
  /\ out' = Answer("process", IntStr(snap[r].id), errorHandler(err[r], dev))
  /\ Return_(r)

\* catch: extractionService.terminate() up to its await.  With a worker,
\* worker.terminate() is called and awaited; without one terminate() returns
\* and next(error) follows at once.
Cleanup(r, dev) ==
  /\ out = Nothing
  /\ pc[r] = "cleanup"
  /\ IF worker # 0 THEN
       /\ alive' = alive \ {worker}
       /\ pc' = [pc EXCEPT ![r] = "terminate"]
       /\ UNCHANGED <<snap, upd, err, ext, extVal, extData, rcpt, out>>
     ELSE
       /\ alive' = alive
       /\ Fail(r, dev)
  /\ UNCHANGED <<dbVars, worker, nextWorker, initialized, using, pdfVars, listVars, fnVars>>

\* OCRService.terminate after worker.terminate() has settled: this.worker = null
terminate(w) == 0

\* catch: worker.terminate() has settled, then next(error)
Terminated(r, dev) ==
  /\ out = Nothing
  /\ pc[r] = "terminate"
  /\ worker' = terminate(worker)
  /\ Fail(r, dev)
  /\ UNCHANGED <<dbVars, alive, nextWorker, initialized, using, pdfVars, listVars, fnVars>>

(* ---------------- GET and DELETE /receipts/:id ---------------- *)
\* receiptRepository.findOne({ where: { id } })
findOne(id) == {row \in receipts : row.id = id}

\* the ids a client asks for: those the receipts table has handed out, and a
\* number
ReceiptIdParams == {Uuid(n) : n \in 1..MaxReceipts} \cup {IntStr(1)}
Asked(p) == p = IntStr(1) \/ \E n \in 1..nextReceipt : p = Uuid(n)

\* route validation, then ReceiptController.getReceipt
GetReceipt(p, answered) ==
  /\ out = Nothing
  /\ Asked(p)
  /\ out' = Answer("get", p,
       IF ~isIntMin1(p) THEN validateFailed(answered)
       ELSE IF findOne(p) = {} THEN errorHandler(notFoundError(Msg("Receipt not found")), FALSE)
       ELSE Success(200, Undefined, <<ReceiptView(CHOOSE row \in findOne(p) : TRUE)>>))
  /\ UNCHANGED <<dbVars, ocrVars, procVars, pdfVars, listVars, fnVars>>

\* FileService.deleteFile: the file on disk after it
deleteFile(f) == Absent

\* route validation, then ReceiptController.deleteReceipt; unlinkOk is the
\* outcome of fs.promises.unlink
DeleteReceipt(p, answered, unlinkOk) ==
  /\ out = Nothing
  /\ Asked(p)
  /\ IF ~isIntMin1(p) THEN
       /\ out' = Answer("delete", p, validateFailed(answered))
       /\ UNCHANGED <<disk, receipts>>
     ELSE IF findOne(p) = {} THEN
       /\ out' = Answer("delete", p, errorHandler(notFoundError(Msg("Receipt not found")), FALSE))
       /\ UNCHANGED <<disk, receipts>>
     ELSE LET receipt == CHOOSE row \in findOne(p) : TRUE IN
       IF disk[receipt.file_path].exists /\ ~unlinkOk THEN
         /\ out' = Answer("delete", p, errorHandler(fileError(Msg("Failed to delete file")), FALSE))
         /\ UNCHANGED <<disk, receipts>>
       ELSE
         /\ disk' = [disk EXCEPT ![receipt.file_path] = deleteFile(@)]
         /\ receipts' = receipts \ {receipt}
         /\ out' = Answer("delete", p, Success(200, Msg("Receipt deleted successfully"), NoData))
  /\ UNCHANGED <<files, nextReceipt, ocrVars, procVars, pdfVars, listVars, fnVars>>

(* ---------------- specification of the service ---------------- *)
Next ==
  \/ Sent
  \/ \E u \in Uploads, renameOk \in BOOLEAN : UploadFile(u, renameOk)
  \/ \E p \in FileIdParams, io \in ValidateIo, answered \in BOOLEAN : ValidateReceipt(p, io, answered)
  \/ \E r \in Reqs, p \in FileIdParams, answered \in BOOLEAN : ProcessStart(r, p, answered)
  \/ \E r \in Reqs : ProgFind(r)
  \/ \E r \in Reqs : ProgSave(r)
  \/ \E r \in Reqs : ExtCreateWorker(r)
  \/ \E r \in Reqs : ExtConvert(r)
  \/ \E r \in Reqs, hasText \in BOOLEAN : ExtRecognize(r, hasText)
  \/ \E r \in Reqs, data \in ExtractedSamples : ExtGemini(r, data)
  \/ \E r \in Reqs : RaceSettle(r)
  \/ \E r \in Reqs : Timeout(r)
  \/ \E r \in Reqs : SaveReceipt(r)
  \/ \E r \in Reqs : DoneFind(r)
  \/ \E r \in Reqs : DoneSave(r)
  \/ \E r \in Reqs : CatchFind(r)
  \/ \E r \in Reqs : CatchSave(r)
  \/ \E r \in Reqs, dev \in BOOLEAN : Cleanup(r, dev)
  \/ \E r \in Reqs, dev \in BOOLEAN : Terminated(r, dev)
  \/ \E p \in ReceiptIdParams, answered \in BOOLEAN : GetReceipt(p, answered)
  \/ \E p \in ReceiptIdParams, answered \in BOOLEAN, unlinkOk \in BOOLEAN :
       DeleteReceipt(p, answered, unlinkOk)

Spec == Init /\ [][Next]_vars

(* ---------------- validatePdf on its own ---------------- *)
Headers == UNION {[1..n -> Tokens] : n \in 0..MaxHeaderLen}
SampleSizes == {0, 8, MAX_FILE_SIZE, MAX_FILE_SIZE + 1}
PdfInputs ==
  {i \in [file : [exists : BOOLEAN, size : SampleSizes, header : Headers], io : IoFaults] :
     /\ Bytes(i.file.header) <= i.file.size
     /\ (i.file.size > 0 => i.file.header # <<>>)
     /\ (~i.file.exists => i.file = Absent)}

InitPdf ==
  /\ files = <<>>
  /\ disk = [p \in 1..MaxFiles |-> Absent]
  /\ receipts = {}
  /\ nextReceipt = 0
  /\ worker = 0
  /\ alive = {}
  /\ nextWorker = 0
  /\ initialized = FALSE
  /\ pc = [r \in Reqs |-> "idle"]
  /\ snap = [r \in Reqs |-> NoFile]
  /\ upd = [r \in Reqs |-> NotRead]
  /\ err = [r \in Reqs |-> NoError]
  /\ ext = [r \in Reqs |-> "idle"]
  /\ extVal = [r \in Reqs |-> NoError]
  /\ extData = [r \in Reqs |-> NoExtracted]
  /\ using = [r \in Reqs |-> 0]
  /\ rcpt = [r \in Reqs |-> NoReceipt]
  /\ out = Nothing
  /\ pdfIn \in PdfInputs
  /\ pdfOut = NotCalled
  /\ listStore = <<>>
  /\ listSort = NoSort
  /\ listOut = NotListed
  /\ walk = NoWalk
  /\ aiIn = NoAnswer
  /\ aiOut = NotShaped
  /\ ocrIn = <<>>
  /\ ocrOut = NotNormalized
  /\ parsed = NotParsed

\* validatePdf is called on the file
PdfCheck ==
  /\ pdfOut = NotCalled
  /\ pdfOut' = validatePdf(pdfIn.file, pdfIn.io)
  /\ UNCHANGED <<dbVars, ocrVars, procVars, out, pdfIn, listVars, fnVars>>

NextPdf == PdfCheck

SpecPdf == InitPdf /\ [][NextPdf]_vars

(* ---------------- GET /receipts on its own ---------------- *)
\* the longest run of decimal digits at the start of s
RECURSIVE LeadingDigits(_)
LeadingDigits(s) ==
  IF s = <<>> \/ Head(s) \notin DigitChars THEN <<>>
  ELSE <<Head(s)>> \o LeadingDigits(Tail(s))

\* parseInt(text) || fallback: parseInt reads an optional sign and the digits
\* that follow, and is NaN without a digit; NaN and 0 are falsy
parseIntOr(s, fallback) ==
  LET signed == s # <<>> /\ Head(s) \in {"-", "+"}
      digs == LeadingDigits(IF signed THEN Tail(s) ELSE s)
      n == IF signed /\ Head(s) = "-" THEN 0 - parseDigits(digs, 0) ELSE parseDigits(digs, 0)
  IN IF digs = <<>> \/ n = 0 THEN fallback ELSE n

\* commonValidations.pagination: TRUE when it throws
pagination(page, limit) == page < 1 \/ limit < 1 \/ limit > 100

allowedSortFields == {"purchased_at", "merchant_name", "total_amount", "created_at"}

\* String.prototype.toUpperCase on the sortOrder texts
toUpperCase(s) ==
  [i \in 1..Len(s) |-> IF s[i] = "asc" THEN "ASC" ELSE IF s[i] = "desc" THEN "DESC" ELSE s[i]]

\* the orders of n rows
Orders(n) == {s \in [1..n -> 1..n] : \A i, j \in 1..n : s[i] = s[j] => i = j}

\* ORDER BY field direction: row a comes before row b; rows with equal keys
\* come in the order tie, which the database is free to choose
Before(table, a, b, field, direction, tie) ==
  LET ka == table[a][field]
      kb == table[b][field]
      pos(x) == CHOOSE i \in 1..Len(tie) : tie[i] = x
  IN IF ka = kb THEN pos(a) < pos(b)
     ELSE IF direction = "ASC" THEN ka < kb ELSE ka > kb

\* the whole table in the order of the query
Ordered(table, field, direction, tie) ==
  LET n == Len(table)
      s == CHOOSE o \in Orders(n) :
             \A i, j \in 1..n : i < j => Before(table, o[i], o[j], field, direction, tie)
  IN [i \in 1..n |-> table[s[i]]]

\* Repository.findAndCount({ skip, take, order }): the rows of the page and
\* the number of rows of the table
findAndCount(table, skip, take, field, direction, tie) ==
  LET all == Ordered(table, field, direction, tie)
      last == IF skip + take < Len(all) THEN skip + take ELSE Len(all)
  IN [rows |-> [i \in 1..(IF last > skip THEN last - skip ELSE 0) |-> all[skip + i]],
      total |-> Len(table)]

\* Math.ceil(total / limit) for a positive limit, rounding down instead
mathFloor(total, limit) == total \div limit

\* Math.ceil(total / limit) for a positive limit
mathCeil(total, limit) ==
  IF total % limit = 0 THEN total \div limit ELSE total \div limit + 1

\* listReceipts after commonValidations.pagination; tie is the order the
\* database gives to rows with equal sort keys
listReceipts(table, q, tie) ==
  LET page == parseIntOr(q.page, 1)
      limit == parseIntOr(q.limit, 10)
      skip == (page - 1) * limit
      sortBy == IF q.sortBy = Undefined THEN Msg("purchased_at") ELSE q.sortBy
      sortOrder == IF toUpperCase(q.sortOrder) = Msg("ASC") THEN "ASC" ELSE "DESC"
      found == findAndCount(table, skip, limit, sortBy[1], sortOrder, tie)
  IN IF pagination(page, limit)
     THEN [queried |-> FALSE, skip |-> 0, take |-> 0,
           resp |-> errorHandler(validationError(Msg("Invalid pagination parameters")), FALSE)]
     ELSE IF sortBy[1] \notin allowedSortFields
     THEN [queried |-> FALSE, skip |-> 0, take |-> 0,
           resp |-> errorHandler(validationError(Msg("Invalid sort field")), FALSE)]
     ELSE [queried |-> TRUE, skip |-> skip, take |-> limit,
           resp |-> Success(200, Undefined,
                      [receipts |-> [i \in 1..Len(found.rows) |-> ReceiptView(found.rows[i])],
                       pagination |-> [total |-> found.total, page |-> page, limit |-> limit,
                                       pages |-> mathCeil(found.total, limit),
                                       has_more |-> skip + Len(found.rows) < found.total]])]

\* the receipts tables tried: up to MaxStored rows, dates that may coincide,
\* the default merchant name, amounts that fall as the rows get newer
StoreSamples ==
  UNION {{[i \in 1..n |->
            [id |-> Uuid(i), merchant_name |-> 1, purchased_at |-> d[i],
             total_amount |-> n + 1 - i, file_path |-> i, created_at |-> i]] :
          d \in [1..n -> 1..2]} : n \in 0..MaxStored}

\* the query texts tried for page and for limit
PageTexts == {Undefined, <<"0">>, <<"-", "1">>, <<"1">>, <<"2">>, <<"3">>, <<"x">>}
LimitTexts == {Undefined, <<"0">>, <<"-", "1">>, <<"1">>, <<"2">>, <<"1", "0", "0">>,
               <<"1", "0", "1">>}
SortTexts ==
  [sortBy : {Undefined, Msg("total_amount"), Msg("id")}, sortOrder : {Undefined, Msg("asc")}]
\* the orders the database is tried with for rows with equal sort keys:
\* oldest first and newest first
TieOrders(n) == {[i \in 1..n |-> i], [i \in 1..n |-> n + 1 - i]}

InitList ==
  /\ files = <<>>
  /\ disk = [p \in 1..MaxFiles |-> Absent]
  /\ receipts = {}
  /\ nextReceipt = 0
  /\ worker = 0
  /\ alive = {}
  /\ nextWorker = 0
  /\ initialized = FALSE
  /\ pc = [r \in Reqs |-> "idle"]
  /\ snap = [r \in Reqs |-> NoFile]
  /\ upd = [r \in Reqs |-> NotRead]
  /\ err = [r \in Reqs |-> NoError]
  /\ ext = [r \in Reqs |-> "idle"]
  /\ extVal = [r \in Reqs |-> NoError]
  /\ extData = [r \in Reqs |-> NoExtracted]
  /\ using = [r \in Reqs |-> 0]
  /\ rcpt = [r \in Reqs |-> NoReceipt]
  /\ out = Nothing
  /\ pdfIn = NoInput
  /\ pdfOut = NotCalled
  /\ listStore \in StoreSamples
  /\ listSort \in SortTexts
  /\ listOut = NotListed
  /\ walk = NoWalk
  /\ aiIn = NoAnswer
  /\ aiOut = NotShaped
  /\ ocrIn = <<>>
  /\ ocrOut = NotNormalized
  /\ parsed = NotParsed

\* the pages fetched in a row: page 1 starts a walk, the page after the last
\* one with the same limit continues it
Walked(w, r) ==
  LET p == r.resp.data.pagination
      ids == [i \in 1..Len(r.resp.data.receipts) |-> r.resp.data.receipts[i].id]
  IN IF ~r.queried THEN w
     ELSE IF p.page = 1 THEN [limit |-> p.limit, pages |-> <<ids>>]
     ELSE IF p.page = Len(w.pages) + 1 /\ p.limit = w.limit
     THEN [w EXCEPT !.pages = Append(@, ids)]
     ELSE NoWalk

\* GET /receipts?page=..&limit=..&sortBy=..&sortOrder=..
Listed(page, limit, tie) ==
  LET q == [page |-> page, limit |-> limit,
            sortBy |-> listSort.sortBy, sortOrder |-> listSort.sortOrder]
      r == listReceipts(listStore, q, tie)
  IN /\ listOut' = [called |-> TRUE, page |-> page, limit |-> limit, queried |-> r.queried,
                    skip |-> r.skip, take |-> r.take, resp |-> r.resp]
     /\ walk' = Walked(walk, r)
     /\ UNCHANGED <<dbVars, ocrVars, procVars, out, pdfVars, listStore, listSort, fnVars>>

\* the first request of a client
ListReceipts(page, limit, tie) ==
  /\ listOut = NotListed
  /\ Listed(page, limit, tie)

\* a client that was answered page 1, 2, ... asks for the page that follows,
\* with the same limit, while the answers say there are more pages
NextPage(tie) ==
  /\ walk # NoWalk
  /\ Len(walk.pages) < listOut.resp.data.pagination.pages
  /\ Listed(IntStr(Len(walk.pages) + 1), listOut.limit, tie)

NextList ==
  \/ \E page \in PageTexts, limit \in LimitTexts, tie \in TieOrders(Len(listStore)) :
       ListReceipts(page, limit, tie)
  \/ \E tie \in TieOrders(Len(listStore)) : NextPage(tie)

SpecList == InitList /\ [][NextList]_vars

(* ---------------- errorHandler on its own ---------------- *)
\* messages of the errors tried
ErrorMessages ==
  {Msg("File not found"), Msg("Receipt not found"), Msg("Validation failed"),
   Msg("Failed to save file"), Msg("Data extraction timeout"), Msg("Unexpected field"),
   Msg("No file uploaded"), Msg("Invalid sort field")}
\* the errors handed to next(): the AppErrors the code makes, errors of
\* libraries and QueryFailedErrors (uploadMiddleware turns every MulterError
\* into an AppError before it calls next)
ErrorSamples ==
  UNION {{validationError(m), notFoundError(m), fileError(m), databaseError(m),
          processingError(m), PlainError(m), LibraryError("QueryFailedError", "", m)} :
         m \in ErrorMessages}

InitErr ==
  /\ files = <<>>
  /\ disk = [p \in 1..MaxFiles |-> Absent]
  /\ receipts = {}
  /\ nextReceipt = 0
  /\ worker = 0
  /\ alive = {}
  /\ nextWorker = 0
  /\ initialized = FALSE
  /\ pc = [r \in Reqs |-> "idle"]
  /\ snap = [r \in Reqs |-> NoFile]
  /\ upd = [r \in Reqs |-> NotRead]
  /\ err \in {[r \in Reqs |-> IF r = 1 THEN e ELSE NoError] : e \in ErrorSamples}
  /\ ext = [r \in Reqs |-> "idle"]
  /\ extVal = [r \in Reqs |-> NoError]
  /\ extData = [r \in Reqs |-> NoExtracted]
  /\ using = [r \in Reqs |-> 0]
  /\ rcpt = [r \in Reqs |-> NoReceipt]
  /\ out = Nothing
  /\ pdfIn = NoInput
  /\ pdfOut = NotCalled
  /\ listStore = <<>>
  /\ listSort = NoSort
  /\ listOut = NotListed
  /\ walk = NoWalk
  /\ aiIn = NoAnswer
  /\ aiOut = NotShaped
  /\ ocrIn = <<>>
  /\ ocrOut = NotNormalized
  /\ parsed = NotParsed

\* next(error): Express calls errorHandler with the error
ErrorHandled(dev) ==
  /\ out = Nothing
  /\ out' = Answer("error", <<>>, errorHandler(err[1], dev))
  /\ UNCHANGED <<dbVars, ocrVars, procVars, pdfVars, listVars, fnVars>>

NextErr == \E dev \in BOOLEAN : ErrorHandled(dev)

SpecErr == InitErr /\ [][NextErr]_vars

(* ---------------- validateAndTransformData on its own ---------------- *)
Returned(data) == [called |-> TRUE, threw |-> FALSE, error |-> NoError, data |-> data]
Thrown(e) == [called |-> TRUE, threw |-> TRUE, error |-> e, data |-> JBare("undefined")]

\* the entry of items made of item
transformItem(item) ==
  JItem("object",
        IF typeOf(item.name) = "string" THEN item.name ELSE JString(Msg("Unknown Item")),
        IF typeOf(item.quantity) = "number" THEN item.quantity ELSE JNumber(1),
        IF typeOf(item.price) = "number" THEN item.price ELSE JNumber(0),
        IF typeOf(item.total) = "number" THEN item.total ELSE JNumber(0))

\* validatedData
transformData(data) ==
  JData("object",
        IF typeOf(data.merchantName) = "string" THEN data.merchantName ELSE JNull,
        IF typeOf(data.date) = "string" THEN data.date ELSE JNull,
        IF typeOf(data.totalAmount) = "number" THEN data.totalAmount ELSE JNull,
        IF typeOf(data.taxAmount) = "number" THEN data.taxAmount ELSE JNull,
        IF data.items.t = "array"
        THEN JList("array", [i \in 1..Len(data.items.list) |-> transformItem(data.items.list[i])])
        ELSE JList("array", <<>>),
        IF typeOf(data.paymentMethod) = "string" THEN data.paymentMethod ELSE JString(Msg("Unknown")),
        IF typeOf(data.receiptNumber) = "string" THEN data.receiptNumber ELSE JNull)

\* the bare value the function is given is falsy: null, '', 0
falsyData(data) == data.t \in {"undefined", "null", "emptyString", "zero"}

\* GeminiService.validateAndTransformData.  Reading a property of an entry
\* of items that is null or undefined throws a TypeError.
validateAndTransformData(data) ==
  IF falsyData(data) \/ data.t \notin {"object", "array"}
  THEN Thrown(processingError(Msg("Invalid data structure received from AI")))
  ELSE IF data.items.t = "array" /\
          \E i \in 1..Len(data.items.list) : data.items.list[i].t \in {"null", "undefined"}
  THEN Thrown(LibraryError("TypeError", "", Msg("Cannot read properties of null (reading 'name')")))
  ELSE LET validatedData == transformData(data) IN
    IF falsy(validatedData.merchantName) /\ falsy(validatedData.totalAmount) /\
       Len(validatedData.items.list) = 0
    THEN Thrown(processingError(Msg("Insufficient data extracted from receipt")))
    ELSE Returned(validatedData)

\* what the language model may answer, once parsed
FullItem == JItem("object", JString(Msg("Milk")), JNumber(2), JNumber(3), JNumber(6))
EmptyItem == JItem("object", JUndefined, JUndefined, JUndefined, JUndefined)
TextItem == JItem("object", JNumber(5), JString(Msg("2")), JString(Msg("3")), JNull)
NullItem == JItem("null", JUndefined, JUndefined, JUndefined, JUndefined)
ItemLists ==
  {JList("undefined", <<>>), JList("string", <<>>), JList("array", <<>>),
   JList("array", <<FullItem>>), JList("array", <<EmptyItem, TextItem>>),
   JList("array", <<FullItem, NullItem>>)}
AiAnswers ==
  {JBare(t) : t \in {"null", "emptyString", "zero", "string", "number", "array"}} \cup
  {JData("object", m, d, total, tax, items, pay, no) :
     m \in {JUndefined, JNull, JString(<<>>), JString(Msg("Shop")), JNumber(7)},
     d \in {JString(Msg("2024-01-31")), JNumber(20240131)},
     total \in {JUndefined, JNull, JNumber(0), JNumber(12), JString(Msg("12"))},
     tax \in {JNumber(2), JString(Msg("2"))},
     items \in ItemLists,
     pay \in {JUndefined, JString(Msg("Card"))},
     no \in {JString(Msg("R1")), JNumber(1)}}

InitAi ==
  /\ files = <<>>
  /\ disk = [p \in 1..MaxFiles |-> Absent]
  /\ receipts = {}
  /\ nextReceipt = 0
  /\ worker = 0
  /\ alive = {}
  /\ nextWorker = 0
  /\ initialized = FALSE
  /\ pc = [r \in Reqs |-> "idle"]
  /\ snap = [r \in Reqs |-> NoFile]
  /\ upd = [r \in Reqs |-> NotRead]
  /\ err = [r \in Reqs |-> NoError]
  /\ ext = [r \in Reqs |-> "idle"]
  /\ extVal = [r \in Reqs |-> NoError]
  /\ extData = [r \in Reqs |-> NoExtracted]
  /\ using = [r \in Reqs |-> 0]
  /\ rcpt = [r \in Reqs |-> NoReceipt]
  /\ out = Nothing
  /\ pdfIn = NoInput
  /\ pdfOut = NotCalled
  /\ listStore = <<>>
  /\ listSort = NoSort
  /\ listOut = NotListed
  /\ walk = NoWalk
  /\ aiIn \in AiAnswers
  /\ aiOut = NotShaped
  /\ ocrIn = <<>>
  /\ ocrOut = NotNormalized
  /\ parsed = NotParsed

\* extractReceiptData: return this.validateAndTransformData(data)
TransformAnswer ==
  /\ ~aiOut.called
  /\ aiOut' = validateAndTransformData(aiIn)
  /\ UNCHANGED <<dbVars, ocrVars, procVars, out, pdfVars, listVars, aiIn, ocrIn, ocrOut, parsed>>

NextAi == TransformAnswer

SpecAi == InitAi /\ [][NextAi]_vars

(* ---------------- text ---------------- *)
(* A text is the sequence of its characters, each a string of length one;  *)
(* the characters outside ASCII have names.                                *)
NL == "\n"
TAB == "\t"
NBSP == "NBSP"
FWDOLLAR == "FWDOLLAR"
FWDOT == "FWDOT"
FWCOMMA == "FWCOMMA"
UPPER == <<"A", "B", "C", "D", "E", "F", "G", "H", "I", "J", "K", "L", "M",
           "N", "O", "P", "Q", "R", "S", "T", "U", "V", "W", "X", "Y", "Z">>
LOWER == <<"a", "b", "c", "d", "e", "f", "g", "h", "i", "j", "k", "l", "m",
           "n", "o", "p", "q", "r", "s", "t", "u", "v", "w", "x", "y", "z">>
UpperChars == {UPPER[i] : i \in 1..26}
LowerChars == {LOWER[i] : i \in 1..26}
\* \s of a regular expression, and what trim() removes
WhiteSpace == {" ", NL, TAB, NBSP}

\* text.replace(/[cls]/g, repl)
ReplaceChars(text, cls, repl) ==
  [i \in 1..Len(text) |-> IF text[i] \in cls THEN repl ELSE text[i]]

\* the text without its leading characters of cls
RECURSIVE DropWhile(_, _)
DropWhile(text, cls) ==
  IF text # <<>> /\ Head(text) \in cls THEN DropWhile(Tail(text), cls) ELSE text

\* text.replace(/[cls]+/g, repl)
RECURSIVE ReplaceRuns(_, _, _)
ReplaceRuns(text, cls, repl) ==
  IF text = <<>> THEN <<>>
  ELSE IF Head(text) \in cls
       THEN <<repl>> \o ReplaceRuns(DropWhile(Tail(text), cls), cls, repl)
       ELSE <<Head(text)>> \o ReplaceRuns(Tail(text), cls, repl)

RECURSIVE trimEnd(_)
trimEnd(text) ==
  IF text # <<>> /\ text[Len(text)] \in WhiteSpace
  THEN trimEnd(SubSeq(text, 1, Len(text) - 1)) ELSE text
\* text.trim()
trim(text) == trimEnd(DropWhile(text, WhiteSpace))

(* ---------------- OCRService.normalizeText ---------------- *)
\* normalizeText: the replacements in the order of the code
normalizeText(text) ==
  trim(ReplaceRuns(ReplaceRuns(
    ReplaceChars(ReplaceChars(ReplaceChars(ReplaceChars(text,
      {FWDOLLAR, "$"}, "$"), {FWDOT, "."}, "."), {",", FWCOMMA}, ","), {NBSP}, " "),
    WhiteSpace, " "), {NL}, NL))

(* ---------------- regular expressions of parseReceiptText ---------------- *)
Letters == UpperChars \cup LowerChars
\* [A-Za-z0-9\s&]
NameChars == Letters \cup DigitChars \cup WhiteSpace \cup {"&"}
\* [-/]
DateSeps == {"-", "/"}
toLowerCase(text) ==
  [i \in 1..Len(text) |->
     IF text[i] \in UpperChars THEN LOWER[CHOOSE k \in 1..26 : UPPER[k] = text[i]] ELSE text[i]]

\* the last index of the run of characters of cls that starts at i (i - 1
\* when there is none)
RECURSIVE RunEnd(_, _, _)
RunEnd(text, i, cls) ==
  IF i <= Len(text) /\ text[i] \in cls THEN RunEnd(text, i + 1, cls) ELSE i - 1

\* the least index in from..Len(text) + 1 at which At holds, 0 when none;
\* the matches are given as the set of indices at which the pattern matches
Leftmost(starts) == IF starts = {} THEN 0 ELSE CHOOSE i \in starts : \A j \in starts : i <= j

\* \d+[.,]\d{2} at i: the index of its last character, 0 without a match
AmountEnd(text, i) ==
  LET End(e) ==
        IF e >= i /\ e + 3 <= Len(text) /\ text[e + 1] \in {".", ","}
           /\ text[e + 2] \in DigitChars /\ text[e + 3] \in DigitChars
        THEN e + 3 ELSE 0
  IN End(RunEnd(text, i, DigitChars))

\* parseFloat(amount.replace(',', '.')), in hundredths
parseFloatAmount(amount) ==
  parseDigits(SubSeq(amount, 1, Len(amount) - 3), 0) * 100
    + parseDigits(SubSeq(amount, Len(amount) - 1, Len(amount)), 0)

\* parseFloat(amount.replace(/[$,]/g, '')), in hundredths: a comma is taken
\* out, which leaves a whole number
parseFloatStripped(amount) ==
  IF amount[Len(amount) - 2] = ","
  THEN parseDigits(SubSeq(amount, 1, Len(amount) - 3) \o
                   SubSeq(amount, Len(amount) - 1, Len(amount)), 0) * 100
  ELSE parseFloatAmount(amount)

\* total|amount|sum|subtotal|balance|final|due|payment|paid|charge
receiptTerms ==
  { <<"t", "o", "t", "a", "l">>, <<"a", "m", "o", "u", "n", "t">>, <<"s", "u", "m">>,
    <<"s", "u", "b", "t", "o", "t", "a", "l">>, <<"b", "a", "l", "a", "n", "c", "e">>,
    <<"f", "i", "n", "a", "l">>, <<"d", "u", "e">>, <<"p", "a", "y", "m", "e", "n", "t">>,
    <<"p", "a", "i", "d">>, <<"c", "h", "a", "r", "g", "e">> }

\* one of the terms at i, letters of either case: the index of its last
\* character, 0 without a match
TermEnd(text, i) ==
  LET End(here) == IF here = {} THEN 0 ELSE i + Len(CHOOSE w \in here : TRUE) - 1
  IN End({w \in receiptTerms :
            i + Len(w) - 1 <= Len(text) /\ toLowerCase(SubSeq(text, i, i + Len(w) - 1)) = w})

\* patterns.total at i: the index of the first digit of the amount, 0
\* without a match
TotalAt(text, i) ==
  LET Amount(k, c) == IF k # 0 /\ AmountEnd(text, c) # 0 THEN c ELSE 0
      Dollar(a) == IF a <= Len(text) /\ text[a] = "$" THEN a + 1 ELSE a
      After(k) ==
        Amount(k, RunEnd(text, Dollar(RunEnd(text, k + 1, WhiteSpace \cup {":"}) + 1),
                         WhiteSpace) + 1)
  IN After(TermEnd(text, i))

\* the end of a line: $ under the flag m
AtLineEnd(text, i) == i = Len(text) + 1 \/ (i <= Len(text) /\ text[i] = NL)

\* patterns.totalAlt at i
TotalAltAt(text, i) ==
  LET Ends(e) ==
        /\ e # 0
        /\ \E j \in (e + 1)..(RunEnd(text, e + 1, WhiteSpace) + 1) :
             \/ AtLineEnd(text, j)
             \/ \E t \in {TermEnd(text, j)} : t # 0 /\ AtLineEnd(text, t + 1)
  IN Ends(AmountEnd(text, i))

\* text.match(/\$?\s*\d+[.,]\d{2}/g), the amounts of the matches from i on
RECURSIVE allAmounts(_, _)
allAmounts(text, i) ==
  LET From(e) ==
        IF e # 0 THEN <<SubSeq(text, i, e)>> \o allAmounts(text, e + 1)
        ELSE allAmounts(text, i + 1)
  IN IF i > Len(text) THEN <<>> ELSE From(AmountEnd(text, i))

\* amounts.sort((a, b) => b - a)[0]
Largest(amounts) ==
  CHOOSE a \in {parseFloatStripped(amounts[i]) : i \in 1..Len(amounts)} :
    \A j \in 1..Len(amounts) : parseFloatStripped(amounts[j]) <= a

\* parseReceiptText: totalAmount, in hundredths
totalAmountOf(text) ==
  LET Amount(c) == parseFloatAmount(SubSeq(text, c, AmountEnd(text, c)))
      LargestOf(amounts) == IF amounts # <<>> THEN Largest(amounts) ELSE 0
      Total(totalMatch, totalAltMatch) ==
        IF totalMatch # 0 THEN Amount(TotalAt(text, totalMatch))
        ELSE IF totalAltMatch # 0 THEN Amount(totalAltMatch)
        ELSE LargestOf(allAmounts(text, 1))
  IN Total(Leftmost({i \in 1..Len(text) : TotalAt(text, i) # 0}),
           Leftmost({i \in 1..Len(text) : TotalAltAt(text, i)}))

(* ---------------- dates ---------------- *)
NoGroups == [end |-> 0, g1 |-> <<>>, g2 |-> <<>>, g3 |-> <<>>]
\* digits, a separator, one or two digits, a separator, digits, at i: the
\* first group has min1..max1 digits, the last min3..max3 and as many as are
\* there
DateAt(text, i, min1, max1, min3, max3) ==
  LET Capped(e, from, most) == IF e - from + 1 > most THEN from + most - 1 ELSE e
      Groups(first, mid, last) ==
        IF /\ first - i + 1 >= min1
           /\ first + 1 <= Len(text) /\ text[first + 1] \in DateSeps
           /\ mid >= first + 2
           /\ mid + 1 <= Len(text) /\ text[mid + 1] \in DateSeps
           /\ last - mid - 1 >= min3
        THEN [end |-> last, g1 |-> SubSeq(text, i, first),
              g2 |-> SubSeq(text, first + 2, mid), g3 |-> SubSeq(text, mid + 2, last)]
        ELSE NoGroups
      Third(first, mid) ==
        Groups(first, mid, Capped(RunEnd(text, mid + 2, DigitChars), mid + 2, max3))
      Second(first) == Third(first, Capped(RunEnd(text, first + 2, DigitChars), first + 2, 2))
  IN Second(Capped(RunEnd(text, i, DigitChars), i, max1))

\* the first match of a pattern of that kind in the text
DateSearch(text, min1, max1, min3, max3) ==
  LET At(i) == IF i = 0 THEN NoGroups ELSE DateAt(text, i, min1, max1, min3, max3)
  IN At(Leftmost({k \in 1..Len(text) : DateAt(text, k, min1, max1, min3, max3).end # 0}))

\* text.match(patterns.date)[0]: the first date in the text, <<>> without one
dateMatch(text) ==
  LET End(mdy, Ymd) == IF mdy.end # 0 THEN mdy.end ELSE Ymd.end
      At(i) ==
        IF i = 0 THEN <<>>
        ELSE SubSeq(text, i, End(DateAt(text, i, 1, 2, 2, 4), DateAt(text, i, 4, 4, 1, 2)))
  IN At(Leftmost({k \in 1..Len(text) : End(DateAt(text, k, 1, 2, 2, 4), DateAt(text, k, 4, 4, 1, 2)) # 0}))

\* new Date(): the current date
Now == [now |-> TRUE, year |-> 0, month |-> 0, day |-> 0]
\* new Date(year, monthIndex, day): a month out of 0..11 moves the year
newDate(year, monthIndex, day) ==
  [now |-> FALSE, year |-> year + (monthIndex \div 12), month |-> monthIndex % 12, day |-> day]
\* isNaN(date.getTime()): a Date made of whole numbers, or of the clock,
\* holds a time
isNaNTime(date) == FALSE

\* parseDate: the three formats are tried in turn, each searched in dateStr
parseDate(dateStr) ==
  LET fullYear(year) == IF year < 100 THEN 2000 + year ELSE year
      Made(match) ==
        IF match.end = 0 THEN Now
        ELSE IF Len(match.g1) = 4
        THEN newDate(parseDigits(match.g1, 0), parseDigits(match.g2, 0) - 1,
                     parseDigits(match.g3, 0))
        ELSE newDate(fullYear(parseDigits(match.g3, 0)), parseDigits(match.g1, 0) - 1,
                     parseDigits(match.g2, 0))
      First(mdY, mdy, Ymd) == IF mdY.end # 0 THEN mdY ELSE IF mdy.end # 0 THEN mdy ELSE Ymd
  IN Made(First(DateSearch(dateStr, 1, 2, 4, 4), DateSearch(dateStr, 1, 2, 2, 2),
                DateSearch(dateStr, 4, 4, 1, 2)))

(* ---------------- the merchant name ---------------- *)
\* text.replace(/[cls]/g, '')
RECURSIVE RemoveChars(_, _)
RemoveChars(text, cls) ==
  IF text = <<>> THEN <<>>
  ELSE IF Head(text) \in cls THEN RemoveChars(Tail(text), cls)
  ELSE <<Head(text)>> \o RemoveChars(Tail(text), cls)

\* INC|LLC|LTD|CORP|CO|CO\.|STORE|SHOP|MARKET|RETAIL
businessSuffixes ==
  { <<"i", "n", "c">>, <<"l", "l", "c">>, <<"l", "t", "d">>, <<"c", "o", "r", "p">>,
    <<"c", "o">>, <<"c", "o", ".">>, <<"s", "t", "o", "r", "e">>, <<"s", "h", "o", "p">>,
    <<"m", "a", "r", "k", "e", "t">>, <<"r", "e", "t", "a", "i", "l">> }

\* name.replace(/\s+(?:INC|...)$/i, ''): white space and a suffix at the end
removeSuffix(name) ==
  LET Cut(cut) == IF cut = {} THEN name ELSE SubSeq(name, 1, Leftmost(cut) - 1)
  IN Cut({i \in 1..Len(name) :
            /\ name[i] \in WhiteSpace
            /\ \E j \in i..Len(name) :
                 /\ \A k \in i..j : name[k] \in WhiteSpace
                 /\ toLowerCase(SubSeq(name, j + 1, Len(name))) \in businessSuffixes})

\* the characters cleanMerchantName keeps: [A-Za-z0-9\s&.,'-]
KeptChars == NameChars \cup {".", ",", "'", "-"}
AllChars ==
  KeptChars \cup {"$", "/", ":", "!", FWDOLLAR, FWDOT, FWCOMMA}

cleanMerchantName(name) ==
  trim(removeSuffix(ReplaceRuns(RemoveChars(name, AllChars \ KeptChars), WhiteSpace, " ")))

\* the start of a line: ^ under the flag m
AtLineStart(text, i) == i = 1 \/ text[i - 1] = NL

\* patterns.merchant.header (least = 1) and topLines (least = 3) at i: the
\* index of the last character of the name, 0 without a match.  The name
\* runs over line breaks and ends before the last one it can reach, or at
\* the end of the text.
HeaderAt(text, i, least) ==
  LET Last(stops) ==
        IF AtLineStart(text, i) /\ text[i] \in UpperChars /\ stops # {}
        THEN CHOOSE k \in stops : \A j \in stops : j <= k
        ELSE 0
  IN Last({k \in (i + least)..RunEnd(text, i + 1, NameChars) :
             \/ k = Len(text)
             \/ (k < Len(text) /\ text[k + 1] = NL)})

\* patterns.merchant.footer at i: a letter, three or more characters of a
\* name, and a dot
FooterAt(text, i) ==
  LET End(e) ==
        IF text[i] \in Letters /\ e >= i + 3 /\ e + 1 <= Len(text) /\ text[e + 1] = "."
        THEN e ELSE 0
  IN End(RunEnd(text, i + 1, NameChars))

\* text.split('\n')
RECURSIVE split(_)
split(text) ==
  LET Lines(e) ==
        IF e = Len(text) THEN <<text>>
        ELSE <<SubSeq(text, 1, e)>> \o split(SubSeq(text, e + 2, Len(text)))
  IN Lines(RunEnd(text, 1, AllChars \ {NL}))

\* the last resort: cleanLine is taken for a name
looksLikeName(cleanLine) ==
  /\ cleanLine # <<>>
  /\ cleanLine[1] \in UpperChars
  /\ Len(cleanLine) >= 2
  /\ \A i \in 2..Len(cleanLine) : cleanLine[i] \in NameChars
  /\ Len(cleanLine) >= 3
  /\ ~(AmountEnd(cleanLine, 1) = Len(cleanLine))
  /\ ~(DateAt(cleanLine, 1, 1, 2, 2, 4).end = Len(cleanLine))
  /\ toLowerCase(cleanLine) \notin receiptTerms

UnknownMerchant ==
  <<"U", "n", "k", "n", "o", "w", "n", " ", "M", "e", "r", "c", "h", "a", "n", "t">>

\* parseReceiptText: merchantName
merchantNameOf(text) ==
  LET Found(lines, names) ==
        IF names # {} THEN cleanMerchantName(trim(lines[Leftmost(names)]))
        ELSE UnknownMerchant
      LastResort(lines) ==
        Found(lines, {k \in 1..Len(lines) :
                        k <= 10 /\ looksLikeName(cleanMerchantName(trim(lines[k])))})
      Name(headerMatch, topLinesMatch, footerMatch) ==
        IF headerMatch # 0
        THEN cleanMerchantName(SubSeq(text, headerMatch, HeaderAt(text, headerMatch, 1)))
        ELSE IF topLinesMatch # 0
        THEN cleanMerchantName(SubSeq(text, topLinesMatch, HeaderAt(text, topLinesMatch, 3)))
        ELSE IF footerMatch # 0
        THEN cleanMerchantName(SubSeq(text, footerMatch, FooterAt(text, footerMatch)))
        ELSE LastResort(split(text))
  IN Name(Leftmost({i \in 1..Len(text) : HeaderAt(text, i, 1) # 0}),
          Leftmost({i \in 1..Len(text) : HeaderAt(text, i, 3) # 0}),
          Leftmost({i \in 1..Len(text) : FooterAt(text, i) # 0}))

(* ---------------- items ---------------- *)
\* itemPattern /(.+?)\s+(\d+[.,]\d{2})$/ in a line: the index of the first
\* digit of the amount that ends the line, 0 without a match
itemAmountStart(line) ==
  Leftmost({i \in 3..Len(line) :
              /\ AmountEnd(line, i) = Len(line)
              /\ line[i - 1] \in WhiteSpace})

\* extractItems
RECURSIVE itemsOf(_)
itemsOf(lines) ==
  LET Item(line, a) ==
        IF a = 0 THEN <<>>
        ELSE <<[description |-> trim(SubSeq(line, 1, a - 1)),
                amount |-> parseFloatAmount(SubSeq(line, a, Len(line)))]>>
      ItemOf(line) == Item(line, itemAmountStart(line))
  IN IF lines = <<>> THEN <<>> ELSE ItemOf(Head(lines)) \o itemsOf(Tail(lines))

(* ---------------- ReceiptExtractionService.extractReceiptData ---------------- *)
NoParsed == [merchantName |-> <<>>, purchaseDate |-> Now, totalAmount |-> 0, items |-> <<>>]
ParseReturned(data) == [called |-> TRUE, threw |-> FALSE, error |-> NoError, data |-> data]
ParseThrown(e) == [called |-> TRUE, threw |-> TRUE, error |-> e, data |-> NoParsed]

\* parseReceiptText
parseReceiptText(text) ==
  LET purchaseDateOf(match) == IF match # <<>> THEN parseDate(match) ELSE Now
      Parsed(merchantName, purchaseDate, totalAmount) ==
        IF merchantName = UnknownMerchant \/ Len(merchantName) < 3
        THEN ParseThrown(validationError(Msg("Could not extract merchant name from receipt")))
        ELSE ParseReturned([merchantName |-> merchantName, purchaseDate |-> purchaseDate,
                            totalAmount |-> totalAmount, items |-> itemsOf(split(text))])
  IN Parsed(merchantNameOf(text), purchaseDateOf(dateMatch(text)), totalAmountOf(text))

\* validateExtractedData without the test of the total amount
validateExtractedDataAnyTotal(data) ==
  IF data.merchantName = <<>> \/ data.merchantName = UnknownMerchant
  THEN validationError(Msg("Could not extract merchant name from receipt"))
  ELSE IF isNaNTime(data.purchaseDate)
  THEN validationError(Msg("Could not extract valid purchase date from receipt"))
  ELSE NoError

\* validateExtractedData: the error it throws, NoError when it returns
validateExtractedData(data) ==
  IF data.merchantName = <<>> \/ data.merchantName = UnknownMerchant
  THEN validationError(Msg("Could not extract merchant name from receipt"))
  ELSE IF data.totalAmount = 0 \/ data.totalAmount <= 0
  THEN validationError(Msg("Could not extract valid total amount from receipt"))
  ELSE IF isNaNTime(data.purchaseDate)
  THEN validationError(Msg("Could not extract valid purchase date from receipt"))
  ELSE NoError

\* extractReceiptData on the text extractTextFromPdf returned; an AppError
\* is thrown on as it is
extractReceiptData(text) ==
  LET Validated(data, error) ==
        IF data.threw THEN data
        ELSE IF error # NoError THEN ParseThrown(error)
        ELSE data
      Extracted(data) == Validated(data, validateExtractedData(data.data))
  IN Extracted(parseReceiptText(text))

(* ---------------- text extraction on its own ---------------- *)
\* lines a receipt is made of
SampleLines ==
  { <<"S", "h", "o", "p">>,
    <<"A", "b">>,
    <<"t", "o", "t", "a", "l", " ", "1", "2", ".", "5", "0">>,
    <<"T", "o", "t", "a", "l", ":", " ", "$", "0", ".", "0", "0">>,
    <<"m", "i", "l", "k", " ", " ", "3", ",", "0", "0">>,
    <<"1", "/", "2", "/", "2", "4">>,
    <<"2", "0", "2", "4", "-", "0", "1", "-", "0", "2">>,
    <<"1", "2", ".", "5", "0", " ", "S", "h", "o", "p">>,
    <<"s", "h", "o", "p", ".", "c", "o", "m">>,
    <<"U", "n", "k", "n", "o", "w", "n", " ", "M", "e", "r", "c", "h", "a", "n", "t">>,
    <<>>,
    <<" ", "A", "b", "c", " ", "S", "T", "O", "R", "E", TAB>>,
    <<FWDOLLAR, "7", FWDOT, "2", "5", NBSP, "d", "u", "e">> }

\* the lines joined by newlines
RECURSIVE JoinLines(_)
JoinLines(lines) ==
  IF Len(lines) = 0 THEN <<>>
  ELSE IF Len(lines) = 1 THEN lines[1]
  ELSE lines[1] \o <<NL>> \o JoinLines(Tail(lines))

\* the texts pdf-parse or Tesseract may hand to normalizeText
RawTexts == {JoinLines(ls) : ls \in UNION {[1..n -> SampleLines] : n \in 1..MaxLines}}

InitText ==
  /\ files = <<>>
  /\ disk = [p \in 1..MaxFiles |-> Absent]
  /\ receipts = {}
  /\ nextReceipt = 0
  /\ worker = 0
  /\ alive = {}
  /\ nextWorker = 0
  /\ initialized = FALSE
  /\ pc = [r \in Reqs |-> "idle"]
  /\ snap = [r \in Reqs |-> NoFile]
  /\ upd = [r \in Reqs |-> NotRead]
  /\ err = [r \in Reqs |-> NoError]
  /\ ext = [r \in Reqs |-> "idle"]
  /\ extVal = [r \in Reqs |-> NoError]
  /\ extData = [r \in Reqs |-> NoExtracted]
  /\ using = [r \in Reqs |-> 0]
  /\ rcpt = [r \in Reqs |-> NoReceipt]
  /\ out = Nothing
  /\ pdfIn = NoInput
  /\ pdfOut = NotCalled
  /\ listStore = <<>>
  /\ listSort = NoSort
  /\ listOut = NotListed
  /\ walk = NoWalk
  /\ aiIn = NoAnswer
  /\ aiOut = NotShaped
  /\ ocrIn \in RawTexts
  /\ ocrOut = NotNormalized
  /\ parsed = NotParsed

\* extractTextFromPdf: extractedText = this.normalizeText(text)
NormalizeText ==
  /\ ~ocrOut.called
  /\ ocrOut' = [called |-> TRUE, text |-> normalizeText(ocrIn)]
  /\ UNCHANGED <<dbVars, ocrVars, procVars, out, pdfVars, listVars, aiIn, aiOut, ocrIn, parsed>>

\* extractReceiptData: parseReceiptText and validateExtractedData on the
\* text extractTextFromPdf returned
ExtractReceiptData ==
  /\ ocrOut.called
  /\ ~parsed.called
  /\ parsed' = extractReceiptData(ocrOut.text)
  /\ UNCHANGED <<dbVars, ocrVars, procVars, out, pdfVars, listVars, aiIn, aiOut, ocrIn, ocrOut>>

NextText ==
  \/ NormalizeText
  \/ ExtractReceiptData

SpecText == InitText /\ [][NextText]_vars

(* ---------------- POST /process/:fileId on its own ---------------- *)
(* The process route alone, on a file that was uploaded and validated.   *)
(* Here the database may fail where the handler provides for it:           *)
(* receiptRepository.save in saveReceiptData, and the status update of     *)
(* the catch block, whose error is logged and dropped; and the cleanup of  *)
(* the OCR worker may fail.                                                *)
InitProc ==
  /\ files = <<updateFileValidation(saveFileMetadata(1, 1), TRUE, Undefined)>>
  /\ disk = [p \in 1..MaxFiles |-> GoodPdf]
  /\ receipts = {}
  /\ nextReceipt = 0
  /\ worker = 0
  /\ alive = {}
  /\ nextWorker = 0
  /\ initialized = FALSE
  /\ pc = [r \in Reqs |-> "idle"]
  /\ snap = [r \in Reqs |-> NoFile]
  /\ upd = [r \in Reqs |-> NotRead]
  /\ err = [r \in Reqs |-> NoError]
  /\ ext = [r \in Reqs |-> "idle"]
  /\ extVal = [r \in Reqs |-> NoError]
  /\ extData = [r \in Reqs |-> NoExtracted]
  /\ using = [r \in Reqs |-> 0]
  /\ rcpt = [r \in Reqs |-> NoReceipt]
  /\ out = Nothing
  /\ pdfIn = NoInput
  /\ pdfOut = NotCalled
  /\ listStore = <<>>
  /\ listSort = NoSort
  /\ listOut = NotListed
  /\ walk = NoWalk
  /\ aiIn = NoAnswer
  /\ aiOut = NotShaped
  /\ ocrIn = <<>>
  /\ ocrOut = NotNormalized
  /\ parsed = NotParsed

\* saveReceiptData: receiptRepository.save throws, the catch of
\* saveReceiptData wraps the error
SaveReceiptFails(r) ==
  /\ out = Nothing
  /\ pc[r] = "saveReceipt"
  /\ err' = [err EXCEPT ![r] =
       databaseError(Msg("Failed to save receipt data: ") \o Msg("SQLITE_BUSY"))]
  /\ pc' = [pc EXCEPT ![r] = "catchFind"]
  /\ UNCHANGED <<dbVars, ocrVars, snap, upd, ext, extVal, extData, using, rcpt, out, pdfVars, listVars, fnVars>>

\* catch: updateFileProcessing(receiptFile.id, false, errorMessage) throws;
\* the inner catch logs updateError and the cleanup follows
CatchSaveFails(r) ==
  /\ out = Nothing
  /\ pc[r] = "catchSave"
  /\ upd' = [upd EXCEPT ![r] = NotRead]
  /\ pc' = [pc EXCEPT ![r] = "cleanup"]
  /\ UNCHANGED <<dbVars, ocrVars, snap, err, ext, extVal, extData, using, rcpt, out, pdfVars, listVars, fnVars>>

\* catch: worker.terminate() rejects.  OCRService.terminate logs the error
\* and returns with this.worker still set; then next(error)
TerminateFails(r, dev) ==
  /\ out = Nothing
  /\ pc[r] = "terminate"
  /\ Fail(r, dev)
  /\ UNCHANGED <<dbVars, ocrVars, using, pdfVars, listVars, fnVars>>

NextProc ==
  \/ Sent
  \/ \E r \in Reqs, p \in FileIdParams, answered \in BOOLEAN : ProcessStart(r, p, answered)
  \/ \E r \in Reqs : ProgFind(r)
  \/ \E r \in Reqs : ProgSave(r)
  \/ \E r \in Reqs : ExtCreateWorker(r)
  \/ \E r \in Reqs : ExtConvert(r)
  \/ \E r \in Reqs, hasText \in BOOLEAN : ExtRecognize(r, hasText)
  \/ \E r \in Reqs, data \in ExtractedSamples : ExtGemini(r, data)
  \/ \E r \in Reqs : RaceSettle(r)
  \/ \E r \in Reqs : Timeout(r)
  \/ \E r \in Reqs : SaveReceiptUpTo(r, MaxProcReceipts)
  \/ \E r \in Reqs : SaveReceiptFails(r)
  \/ \E r \in Reqs : DoneFind(r)
  \/ \E r \in Reqs : DoneSave(r)
  \/ \E r \in Reqs : CatchFind(r)
  \/ \E r \in Reqs : CatchSave(r)
  \/ \E r \in Reqs : CatchSaveFails(r)
  \/ \E r \in Reqs, dev \in BOOLEAN : Cleanup(r, dev)
  \/ \E r \in Reqs, dev \in BOOLEAN : Terminated(r, dev)
  \/ \E r \in Reqs, dev \in BOOLEAN : TerminateFails(r, dev)

SpecProc == InitProc /\ [][NextProc]_vars

(* ---------------- properties ---------------- *)
\* request r is in its catch block with the error e
Caught(r) == pc[r] \in {"catchFind", "catchSave", "cleanup", "terminate"}

\* C1: every stored Receipt row names an uploaded file and was saved by a
\* process request that read is_valid = true on the file record and whose
\* extraction promise (OCR text, then field extraction) had resolved.
C1_ReceiptOnlyAfterValidExtract ==
  \A row \in receipts :
    /\ row.file_path \in 1..Len(files)
    /\ row.fromValid
    /\ row.fromExtraction = "resolved"

C1_Witness ==
  \E row \in receipts : row.fromValid /\ row.fromExtraction = "resolved" /\ files[row.file_path].is_processed

\* the error processReceipt throws for a record whose is_valid is false
RejectedInvalid(r) ==
  /\ Caught(r)
  /\ err[r].type = VALIDATION
  /\ Head(err[r].message) = "Cannot process invalid receipt: "

\* C2: a process request for a record whose is_valid is false is answered 400
\* VALIDATION_ERROR, starts no extraction, saves no Receipt row and leaves the
\* file records as they are: no step of the rejected request changes them.
C2_InvalidRejectedRecordUnchanged ==
  [][\A r \in Reqs :
       (RejectedInvalid(r) /\ pc'[r] # pc[r]) =>
          /\ files' = files
          /\ receipts' = receipts
          /\ ext'[r] = "idle"
          /\ (pc'[r] = "idle" =>
                out'.resp.status = 400 /\ out'.resp.type = VALIDATION)]_vars

\* C3: the cleanup of a failed request never terminates the OCR worker that
\* another request, still waiting for its extraction, is using: the worker
\* whose recognize() an in-flight request awaits is alive.
C3_WorkerInUseIsAlive ==
  \A r \in Reqs : (pc[r] = "race" /\ ext[r] = "recognize") => using[r] \in alive

\* C4: at most one Tesseract worker is alive at any time.
C4_SingleWorker == Cardinality(alive) <= 1

\* the error the timer of the race rejects with
TimedOut(r) == Caught(r) /\ err[r] = PlainError(Msg("Data extraction timeout"))

\* the extraction promise of r is running and nobody awaits it any more
Abandoned(r) == ext[r] \notin Settled /\ (pc[r] = "idle" \/ Caught(r))

C6_GetReturnsStoredReceipt ==
  \A row \in receipts :
    (out.op = "get" /\ out.param = row.id) =>
       /\ out.resp.status = 200
       /\ out.resp.data = <<ReceiptView(row)>>

\* C7: DELETE /api/receipts/:id with the id of a receipt answers success with
\* the row and its file gone, or FILE_ERROR with the row kept.
C7_DeleteRemovesReceipt ==
  (out.op = "delete" /\ (\E n \in 1..nextReceipt : out.param = Uuid(n))) =>
     \/ /\ out.resp.status = 200
        /\ findOne(out.param) = {}
     \/ /\ out.resp.type = FILE
        /\ findOne(out.param) # {}

C9_ValidatePersistsWhatItReports ==
  (out.op = "validate" /\ isIntMin1(out.param) /\ parseInt(out.param) <= Len(files)) =>
     /\ out.resp.status = 200
     /\ LET reported == out.resp.data[1]
            row == files[parseInt(out.param)] IN
          /\ reported.id = row.id
          /\ row.is_valid = reported.is_valid
          /\ \E io \in ValidateIo :
               validatePdf(disk[row.file_path], io) =
                 Return(reported.is_valid, reported.invalid_reason)
          /\ reported.is_valid => out.resp.message = Msg("File validated successfully")
          /\ ~reported.is_valid =>
               /\ reported.invalid_reason # Undefined
               /\ row.invalid_reason = reported.invalid_reason
               /\ out.resp.message = Msg("File validation failed")

\* a validate request that found the file invalid and stored the reason
C9_Witness ==
  /\ out.op = "validate"
  /\ out.resp.status = 200
  /\ ~out.resp.data[1].is_valid
  /\ ~files[out.resp.data[1].id].is_valid
  /\ files[out.resp.data[1].id].invalid_reason = out.resp.data[1].invalid_reason

\* '%PDF-' followed by digits, a dot and a digit, somewhere in the header
HasVersion(h) ==
  \E i, j \in 1..Len(h) :
    /\ h[i] = "SIG"
    /\ i + 1 < j
    /\ \A k \in (i + 1)..(j - 1) : h[k] = "d"
    /\ h[j] = "."
    /\ j + 1 <= Len(h)
    /\ h[j + 1] = "d"

\* C10: validatePdf never throws; it returns isValid = true exactly when the
\* file exists, no fs call fails, 0 < size <= 10MB, the content starts with
\* '%PDF-' and the header holds a version digits.digits; otherwise it returns
\* isValid = false with a non-empty reason.
C10_ValidatePdfDecides ==
  pdfOut # NotCalled =>
    /\ ~pdfOut.threw
    /\ pdfOut.isValid <=>
         /\ pdfIn.file.exists
         /\ pdfIn.io = "none"
         /\ pdfIn.file.size > 0
         /\ pdfIn.file.size <= 10 * 1024 * 1024
         /\ pdfIn.file.header # <<>>
         /\ Head(pdfIn.file.header) = "SIG"
         /\ HasVersion(pdfIn.file.header)
    /\ ~pdfOut.isValid => pdfOut.reason # <<>>

\* a file of exactly 10MB with a version is accepted
C10_Witness ==
  /\ pdfOut # NotCalled
  /\ pdfOut.isValid
  /\ pdfIn.file.size = MAX_FILE_SIZE


(* ---------------- GET /receipts ---------------- *)
\* the number a query text asks for: the number it spells, or the default
\* when the parameter is absent or spells no number
AskedNumber(text, default) == IF IsIntText(text) THEN parseInt(text) ELSE default

\* the request was rejected with status and type
Rejected(resp, status, type) == resp.status = status /\ resp.type = type

\* C11: page defaults to 1 and limit to 10; a list request whose page is
\* below 1, or whose limit is below 1 or above 100, is rejected with 400
\* VALIDATION_ERROR, and the repository is never queried with such values:
\* skip is never negative and take is always in 1..100.
C11_ListBoundsEnforced ==
  listOut.called =>
    LET page == AskedNumber(listOut.page, 1)
        limit == AskedNumber(listOut.limit, 10)
    IN /\ (page < 1 \/ limit < 1 \/ limit > 100) =>
            /\ Rejected(listOut.resp, 400, VALIDATION)
            /\ ~listOut.queried
       /\ listOut.queried =>
            /\ listOut.skip >= 0
            /\ listOut.take \in 1..100
            /\ listOut.resp.data.pagination.page = page
            /\ listOut.resp.data.pagination.limit = limit

\* the sort field and direction of the requests of this client
SortField == IF listSort.sortBy = Undefined THEN "purchased_at" ELSE listSort.sortBy[1]
Descending == listSort.sortOrder # Msg("asc")

\* the rows of the table that the order of the query puts before a row with
\* key k, and those it does not put after it
RowsBefore(k) ==
  {j \in 1..Len(listStore) :
     IF Descending THEN listStore[j][SortField] > k ELSE listStore[j][SortField] < k}
RowsNotAfter(k) ==
  {j \in 1..Len(listStore) :
     IF Descending THEN listStore[j][SortField] >= k ELSE listStore[j][SortField] =< k}

\* the answer holds the receipts at positions skip+1 .. skip+limit of the
\* table in the order of the sort field, each once and no other
PageOfOrderedStore ==
  LET p == listOut.resp.data.pagination
      rows == listOut.resp.data.receipts
      skip == (p.page - 1) * p.limit
      left == IF Len(listStore) > skip THEN Len(listStore) - skip ELSE 0
  IN /\ Len(rows) = IF left < p.limit THEN left ELSE p.limit
     /\ \A i \in 1..Len(rows) :
          /\ \E j \in 1..Len(listStore) : rows[i] = ReceiptView(listStore[j])
          /\ Cardinality(RowsBefore(rows[i][SortField])) < skip + i
          /\ Cardinality(RowsNotAfter(rows[i][SortField])) >= skip + i
     /\ \A i, j \in 1..Len(rows) : rows[i].id = rows[j].id => i = j

\* the ids answered over the pages of a walk, one after the other
RECURSIVE Flatten(_)
Flatten(ps) == IF ps = <<>> THEN <<>> ELSE Head(ps) \o Flatten(Tail(ps))

\* the client has fetched pages 1..pages of the table
WalkedAll ==
  /\ walk # NoWalk
  /\ Len(walk.pages) >= mathCeil(Len(listStore), walk.limit)

\* every receipt of the table was answered exactly once over the walk
EachOnce ==
  LET ids == Flatten(walk.pages)
  IN \A j \in 1..Len(listStore) :
       Cardinality({i \in 1..Len(ids) : ids[i] = listStore[j].id}) = 1

\* C12: an accepted list request returns exactly the receipts at positions
\* (page-1)*limit .. page*limit-1 of the stored receipts in the order of the
\* sort field (purchased_at descending by default), at most limit of them,
\* and walking pages 1..pages over an unchanged table returns every receipt
\* exactly once.
C12_PagesPartitionTheStore ==
  /\ listOut.queried => PageOfOrderedStore
  /\ WalkedAll => EachOnce

\* C13: total is the number of stored receipts, pages is ceil(total / limit),
\* and has_more is true exactly when a receipt lies on a later page: it is
\* false on the last page and on every page beyond it.
C13_PaginationMetadata ==
  listOut.queried =>
    LET p == listOut.resp.data.pagination
    IN /\ p.total = Len(listStore)
       /\ p.pages * p.limit >= p.total
       /\ (p.pages - 1) * p.limit < p.total
       /\ p.has_more <=> p.page * p.limit < Len(listStore)
       /\ p.has_more <=> p.page < p.pages

\* the last page of a table of three receipts fetched two at a time
C13_Witness ==
  /\ listOut.queried
  /\ Len(listStore) = MaxStored
  /\ listOut.resp.data.pagination.limit = 2
  /\ listOut.resp.data.pagination.page = 2
  /\ listOut.resp.data.pagination.pages = 2
  /\ Len(listOut.resp.data.receipts) = 1
  /\ ~listOut.resp.data.pagination.has_more


(* ---------------- errors ---------------- *)
\* the error types of types/errors.ts, which the README documents
DocumentedTypes == {VALIDATION, NOT_FOUND, FILE, DATABASE, PROCESSING}

\* C14: every error that reaches the error handler is answered once, with a
\* documented type and a message, and the HTTP status follows the type: 400
\* for VALIDATION_ERROR and FILE_ERROR, 404 for NOT_FOUND_ERROR, 500 for
\* DATABASE_ERROR, PROCESSING_ERROR and every error that is no AppError.
C14_ErrorResponseFollowsType ==
  out.op = "error" =>
    /\ out.resp.type \in DocumentedTypes
    /\ out.resp.message # Undefined
    /\ out.resp.status = (CASE out.resp.type \in {VALIDATION, FILE} -> 400
                            [] out.resp.type = NOT_FOUND -> 404
                            [] OTHER -> 500)
    /\ err[1].isAppError => out.resp.type = err[1].type /\ out.resp.message = err[1].message
    /\ ~err[1].isAppError => out.resp.status = 500

\* a QueryFailedError was answered 500 DATABASE_ERROR
C14_Witness ==
  /\ out.op = "error"
  /\ err[1].name = "QueryFailedError"
  /\ out.resp.status = 500
  /\ out.resp.type = DATABASE


(* ---------------- requests the routes reject or cannot serve ---------------- *)
\* the routes with a path id
IdRoutes == {"validate", "process", "get", "delete"}

\* C15: a validate, process, get or delete request whose path id is not a
\* positive integer is always answered 400 'Validation failed'; it is never
\* left without a response.
C15_BadIdAnswered400 ==
  out.op \in IdRoutes /\ ~isIntMin1(out.param) =>
    /\ Rejected(out.resp, 400, VALIDATION)
    /\ out.resp.message = Msg("Validation failed")


\* the upload is one the route must refuse: no file under the field
\* 'receipt', a mimetype other than application/pdf, or more than 5MB
BadUpload(param) ==
  \/ param[1] # "receipt"
  \/ param[2] # "application/pdf"
  \/ param[3] > 5 * 1024 * 1024

\* C16: an upload with a wrong mimetype, a file above 5MB, or no file under
\* the field 'receipt' is rejected 400 VALIDATION_ERROR and creates no
\* ReceiptFile row and no file.
C16_BadUploadRejected ==
  [][out'.op = "upload" /\ out # out' /\ BadUpload(out'.param) =>
       /\ Rejected(out'.resp, 400, VALIDATION)
       /\ files' = files
       /\ disk' = disk]_vars

\* each of the three refusals has been answered
C16_Witness ==
  /\ out.op = "upload"
  /\ out.param[1] = "receipt"
  /\ out.param[2] = "text/plain"
  /\ out.param[3] <= 5 * 1024 * 1024
  /\ out.resp.status = 400
  /\ out.resp.message = Msg("Only PDF files are allowed")


\* the id of the request does not exist: no file record has the fileId, no
\* Receipt row has the id
UnknownId(op, param) ==
  IF op \in {"validate", "process"} THEN parseInt(param) > Len(files)
  ELSE findOne(param) = {}

\* the message of the 404 of each route
NotFoundMessage(op) ==
  IF op \in {"validate", "process"} THEN Msg("File not found") ELSE Msg("Receipt not found")

\* request r found no file record for its fileId
FoundNoFile(r) == pc[r] \in {"cleanup", "terminate"} /\ err[r].type = NOT_FOUND

Alone(r) == \A q \in Reqs \ {r} : Free(q)

\* C19: after a process request has failed and the controller has terminated
\* the OCR service, a later process request still succeeds on a readable PDF
\* because the OCR worker is created again on demand: a request that starts
\* its extraction with no other request around has a worker or creates one.
C19_WorkerCreatedAgainOnDemand ==
  [][\A r \in Reqs :
       pc[r] = "progSave" /\ pc'[r] = "race" /\ Alone(r) =>
         worker # 0 \/ ext'[r] = "createWorker"]_vars


(* ---------------- the status a process request leaves ---------------- *)
\* the handler of request r, which found its file record, returns in this step
Completes(r) == pc[r] # "idle" /\ pc'[r] = "idle" /\ snap[r].file_path # 0

\* the status message the catch block writes for the error e
StatusOf(e) == IF e.isAppError THEN e.message ELSE Msg("Processing failed: ") \o e.message

\* C18: once a process request on an existing file record has completed, the
\* status message of the record is no longer 'Processing in progress': a
\* request that succeeds leaves 'Processing completed successfully' with
\* is_processed true, a request that fails (extraction error, timeout, save
\* error) leaves the error message with is_processed false, and the original
\* error is the one handed to the error handler.  The record is looked at
\* when the request writes its last status, and when no request is left.
C18_StatusSettledAtCompletion ==
  [][/\ (\A r \in Reqs : pc'[r] = "idle") =>
          \A i \in 1..Len(files') : files'[i].invalid_reason # Msg("Processing in progress")
     /\ \A r \in Reqs :
          /\ pc[r] = "doneSave" /\ pc'[r] = "idle" =>
               /\ files'[snap[r].id].is_processed
               /\ files'[snap[r].id].invalid_reason = Msg("Processing completed successfully")
          /\ pc[r] = "catchSave" /\ pc'[r] = "cleanup" =>
               /\ ~files'[snap[r].id].is_processed
               /\ files'[snap[r].id].invalid_reason = StatusOf(err[r])
          /\ Caught(r) /\ Caught(r)' => err'[r] = err[r]
          /\ Completes(r) /\ out'.resp.status # 200 =>
               out'.resp.status = (IF err[r].isAppError THEN err[r].statusCode ELSE 500)]_vars

(* ---------------- receipts per file ---------------- *)
\* C20: each uploaded file yields at most one Receipt row: neither a process
\* request on a file that is already processed nor two concurrent process
\* requests for one file store a second row with the same file_path.
C20_OneReceiptPerFile ==
  \A a, b \in receipts : a.file_path = b.file_path => a = b

(* ---------------- receipts and the files they name ---------------- *)
\* the file the receipt row names is on disk
FileOnDisk(row) == row.file_path \in DOMAIN disk /\ disk[row.file_path].exists

C22_ProcessedImpliesValid ==
  \A i \in 1..Len(files) : files[i].is_processed => files[i].is_valid

(* ---------------- the outcome of a process request ---------------- *)
\* the handler of request r returns in this step
Returns(r) == pc[r] # "idle" /\ pc'[r] = "idle"

\* the answer to a process request the route validation turned down
RouteRejected(resp) == resp = errorHandler(validationError(Msg("Validation failed")), FALSE)

\* the step answers a process request
AnswersProcess == out' # out /\ out'.op = "process"

\* processReceipt ends with one outcome: the step in which the handler of r
\* returns writes one answer, the success response at the end of the try
\* block with no error caught, or what errorHandler makes of the error
\* caught, after the catch block is through, whether or not its status update
\* and its cleanup succeeded.  No other step answers a process request, a
\* step of an extraction promise left behind by a timeout least of all.
OneOutcomePerHandler ==
  /\ \A r \in Reqs : Returns(r) =>
        /\ out = Nothing
        /\ AnswersProcess
        /\ \A q \in Reqs \ {r} : ~Returns(q)
        /\ \/ /\ pc[r] = "doneSave"
              /\ err[r] = NoError
              /\ out'.resp.status = 200
           \/ /\ pc[r] \in {"cleanup", "terminate"}
              /\ err[r] # NoError
              /\ \E dev \in BOOLEAN : out'.resp = errorHandler(err[r], dev)
  /\ \A r \in Reqs : pc[r] = "idle" /\ pc'[r] = "idle" /\ ext'[r] # ext[r] => out' = out

\* C23: every process request produces exactly one outcome, either one
\* success response or one error handed to the error handler, never both and
\* never neither: each step that ends a process request writes its one
\* answer, a success or an error response, and nothing else answers it.
C23_ExactlyOneOutcome ==
  [][/\ OneOutcomePerHandler
     /\ AnswersProcess =>
          \/ \E r \in Reqs : Returns(r)
          \/ (pc' = pc /\ RouteRejected(out'.resp))]_vars

\* the same for the requests processReceipt is called for
C23_HandlerHasOneOutcome ==
  [][/\ OneOutcomePerHandler
     /\ AnswersProcess /\ isIntMin1(out'.param) => \E r \in Reqs : Returns(r)]_vars

(* ---------------- the shape of the extracted data ---------------- *)
StringOrNull(v) == v.t \in {"string", "null"}
NumberOrNull(v) == v.t \in {"number", "null"}

\* the entry of the answer is taken over where it has the type asked for
ItemShaped(given, made) ==
  /\ made.name = (IF given.name.t = "string" THEN given.name ELSE JString(Msg("Unknown Item")))
  /\ made.quantity = (IF given.quantity.t = "number" THEN given.quantity ELSE JNumber(1))
  /\ made.price = (IF given.price.t = "number" THEN given.price ELSE JNumber(0))
  /\ made.total = (IF given.total.t = "number" THEN given.total ELSE JNumber(0))

\* the answer is an object, so that it can be shaped at all
Shapeable(data) == data.t \in {"object", "array"}

\* the number of entries the shaped items have
ItemCount(data) == IF data.items.t = "array" THEN Len(data.items.list) ELSE 0

\* C24: validateAndTransformData returns an object in which merchantName,
\* date and receiptNumber are each a string or null, totalAmount and
\* taxAmount are each a number or null, paymentMethod is a string (default
\* 'Unknown') and items is an array whose entries default to name
\* 'Unknown Item', quantity 1, price 0 and total 0; it rejects with
\* PROCESSING_ERROR 'Insufficient data extracted from receipt' exactly when
\* merchantName is null, totalAmount is null and items is empty.
C24_ShapedOrInsufficient ==
  aiOut.called /\ Shapeable(aiIn) =>
    LET insufficient == /\ aiIn.merchantName.t # "string"
                        /\ aiIn.totalAmount.t # "number"
                        /\ ItemCount(aiIn) = 0
    IN IF insufficient
       THEN /\ aiOut.threw
            /\ aiOut.error = processingError(Msg("Insufficient data extracted from receipt"))
       ELSE /\ ~aiOut.threw
            /\ StringOrNull(aiOut.data.merchantName)
            /\ StringOrNull(aiOut.data.date)
            /\ StringOrNull(aiOut.data.receiptNumber)
            /\ NumberOrNull(aiOut.data.totalAmount)
            /\ NumberOrNull(aiOut.data.taxAmount)
            /\ aiOut.data.paymentMethod.t = "string"
            /\ (aiIn.paymentMethod.t # "string" =>
                  aiOut.data.paymentMethod = JString(Msg("Unknown")))
            /\ aiOut.data.items.t = "array"
            /\ Len(aiOut.data.items.list) = ItemCount(aiIn)
            /\ \A i \in 1..ItemCount(aiIn) :
                  ItemShaped(aiIn.items.list[i], aiOut.data.items.list[i])

(* ---------------- the lines of the normalized text ---------------- *)
\* the characters of the text that are no white space, after the
\* replacement of the special signs
RECURSIVE Visible(_)
Visible(text) ==
  IF text = <<>> THEN <<>>
  ELSE IF Head(text) \in WhiteSpace THEN Visible(Tail(text))
  ELSE <<(IF Head(text) = FWDOLLAR THEN "$"
          ELSE IF Head(text) = FWDOT THEN "."
          ELSE IF Head(text) = FWCOMMA THEN ","
          ELSE Head(text))>> \o Visible(Tail(text))

\* what stands between each two visible characters that follow each other:
\* nothing, white space within a line, or a line break
RECURSIVE Gaps(_, _, _)
Gaps(text, started, gap) ==
  IF text = <<>> THEN <<>>
  ELSE IF Head(text) \in WhiteSpace
       THEN Gaps(Tail(text), started,
                 IF Head(text) = NL \/ gap = "line" THEN "line" ELSE "space")
       ELSE (IF started THEN <<gap>> ELSE <<>>) \o Gaps(Tail(text), TRUE, "none")

\* no character of cls follows another one
NoRun(text, cls) == \A i \in 1..(Len(text) - 1) : ~(text[i] \in cls /\ text[i + 1] \in cls)

\* C26: normalizeText collapses every run of spaces to a single space and
\* every run of newlines to a single newline, so that the line breaks of the
\* text survive (what was on two lines still is), and it removes leading and
\* trailing white space.
C26_NormalizeKeepsLines ==
  ocrOut.called =>
    /\ Visible(ocrOut.text) = Visible(ocrIn)
    /\ Gaps(ocrOut.text, FALSE, "none") = Gaps(ocrIn, FALSE, "none")
    /\ NoRun(ocrOut.text, {" "})
    /\ NoRun(ocrOut.text, {NL})
    /\ ocrOut.text = trim(ocrOut.text)

\* the text holds a date in the sense of the date pattern: digits, a
\* separator, one or two digits, a separator and digits, with one digit
\* before and two after, or four before and one after
ContainsDate(text) ==
  \E a, b \in 1..Len(text) :
    /\ text[a] \in DateSeps
    /\ text[b] \in DateSeps
    /\ b - a \in {2, 3}
    /\ \A k \in (a + 1)..(b - 1) : text[k] \in DigitChars
    /\ a > 1
    /\ text[a - 1] \in DigitChars
    /\ b < Len(text)
    /\ text[b + 1] \in DigitChars
    /\ \/ b + 2 <= Len(text) /\ text[b + 2] \in DigitChars
       \/ a > 4 /\ \A k \in (a - 4)..(a - 1) : text[k] \in DigitChars

\* a Date that holds a time: the clock's, or one made of whole numbers
ValidDate(date) ==
  /\ ~isNaNTime(date)
  /\ date.now \/ (date.year \in Nat /\ date.month \in 0..11 /\ date.day \in Nat)

C25_WitnessThrown ==
  /\ parsed.called
  /\ parsed.threw
  /\ merchantNameOf(ocrOut.text) # UnknownMerchant
  /\ Len(merchantNameOf(ocrOut.text)) >= 3
  /\ totalAmountOf(ocrOut.text) = 0

\* extractReceiptData returned the data of a text that holds a date
C25_WitnessDated ==
  /\ parsed.called
  /\ ~parsed.threw
  /\ ContainsDate(ocrOut.text)
  /\ ~parsed.data.purchaseDate.now

====
